---- MODULE Spec2Model ----
(***************************************************************************)
(* Model of repoyank's interactive selection core: the arena built by      *)
(* prepare_selectable_items from the labels of build_tree_labels, the      *)
(* tri-state propagation helpers, the visibility/filter computation, the   *)
(* viewport controller and the two-mode key handler of TuiApp, driven by   *)
(* the draw / handle_events loop of run_tui_with_prepared_items.           *)
(*                                                                         *)
(* Strings are sequences of characters (one-character strings; the box     *)
(* drawing glyphs are named by their code point).  A path is a sequence of *)
(* components, each component a string.  Indices are 0-based as in the     *)
(* source; a Vec v is the sequence whose element i sits at v[i + 1].       *)
(***************************************************************************)
EXTENDS Integers, Sequences, FiniteSets, TLC

\* ------------------------------------------------------------------ bounds
MaxFilterLen == 1
MaxViewportHeight == 2

\* ------------------------------------------------------- strings and paths
RECURSIVE ConcatAll(_)
ConcatAll(ss) == IF ss = <<>> THEN <<>> ELSE Head(ss) \o ConcatAll(Tail(ss))

\* char::to_lowercase restricted to the characters of the model; none of them
\* has a lower case that depends on its neighbours, so str::to_lowercase maps
\* character by character
ToLowerChar(c) ==
    CASE c = "C" -> "c"
      [] c = "U+00C9" -> "U+00E9"
      [] OTHER -> c

\* str::to_lowercase
ToLowercase(s) == [i \in 1..Len(s) |-> ToLowerChar(s[i])]

\* char::len_utf8: U+00C9 and U+00E9 (E acute, upper and lower case) take two
\* bytes, the box drawing glyphs three, the ASCII characters one
len_utf8(c) ==
    IF c \in {"U+00C9", "U+00E9"} THEN 2
    ELSE IF c \in {"U+2502", "U+2514", "U+2500", "U+251C"} THEN 3
    ELSE 1

\* str::len, in bytes
RECURSIVE ByteLen(_)
ByteLen(s) == IF s = <<>> THEN 0 ELSE len_utf8(Head(s)) + ByteLen(Tail(s))

\* str::is_char_boundary
is_char_boundary(s, pos) == \E k \in 0..Len(s) : ByteLen(SubSeq(s, 1, k)) = pos

\* number of characters in front of the byte offset pos, a char boundary
CharsBefore(s, pos) == CHOOSE k \in 0..Len(s) : ByteLen(SubSeq(s, 1, k)) = pos

\* str::contains (the empty pattern is contained in every string)
Contains(s, pat) ==
    \E k \in 0..(Len(s) - Len(pat)) :
        \A j \in 1..Len(pat) : s[k + j] = pat[j]

\* Path::starts_with
StartsWith(p, base) ==
    /\ Len(base) <= Len(p)
    /\ SubSeq(p, 1, Len(base)) = base

\* Path::parent, None when the path has no component left
NoPath == <<"None">>
PathParent(p) == IF Len(p) = 0 THEN NoPath ELSE SubSeq(p, 1, Len(p) - 1)

\* path.strip_prefix(root_path).unwrap_or(path)
StripPrefixOrSelf(p, base) ==
    IF StartsWith(p, base) THEN SubSeq(p, Len(base) + 1, Len(p)) ELSE p

\* rel.parent().unwrap_or_else(|| Path::new(""))
RelParent(rel) == IF Len(rel) = 0 THEN <<>> ELSE SubSeq(rel, 1, Len(rel) - 1)

\* ------------------------------------------------------ build_tree_labels
GlyphBlank == <<" ", " ", " ">>
GlyphBar == <<"U+2502", " ", " ">>
GlyphLast == <<"U+2514", "U+2500", " ">>
GlyphMid == <<"U+251C", "U+2500", " ">>
RootLabel == <<".", "/">>

\* mutant: the map keeps the first sighting of a parent instead of the last
FirstChildOf(paths, root_path, parent_rel) ==
    LET hits == {i \in 0..(Len(paths) - 1) :
                    RelParent(StripPrefixOrSelf(paths[i + 1].path, root_path)) = parent_rel}
    IN  IF hits = {} THEN -1 ELSE CHOOSE i \in hits : \A j \in hits : i <= j

\* PASS #1: last_child_map, parent_rel_path -> index of the last sighting
LastChildOf(paths, root_path, parent_rel) ==
    LET hits == {i \in 0..(Len(paths) - 1) :
                    RelParent(StripPrefixOrSelf(paths[i + 1].path, root_path)) = parent_rel}
    IN  IF hits = {} THEN -1 ELSE CHOOSE i \in hits : \A j \in hits : j <= i

\* while ancestor_stack.len() > depth { pop }
PopTo(stack, depth) == IF Len(stack) > depth THEN SubSeq(stack, 1, depth) ELSE stack

\* the three-way stack update at the end of the loop body
StackUpdate(stack, depth, idx) ==
    IF depth = Len(stack) THEN Append(stack, idx)
    ELSE IF depth < Len(stack) THEN [stack EXCEPT ![depth + 1] = idx]
    ELSE [k \in 1..(depth + 1) |->
             IF k = depth + 1 THEN idx
             ELSE IF k <= Len(stack) THEN stack[k] ELSE 0]

\* mutant: the bar is drawn below an ancestor that was the last child
ContinuationGlyphSwapped(is_last_vec, ancestor_idx_on_stack) ==
    IF is_last_vec[ancestor_idx_on_stack + 1] THEN GlyphBar ELSE GlyphBlank

\* the string pushed for one element of ancestor_stack[1..depth]
ContinuationGlyph(is_last_vec, ancestor_idx_on_stack) ==
    IF is_last_vec[ancestor_idx_on_stack + 1] THEN GlyphBlank ELSE GlyphBar

\* &ancestor_stack[1..depth] panics when the stack is shorter than depth: TRUE
\* when some iteration of PASS #2 from idx on does so
RECURSIVE LabelLoopPanics(_, _, _, _)
LabelLoopPanics(paths, root_path, idx, ancestor_stack) ==
    IF idx >= Len(paths) THEN FALSE
    ELSE
      LET rel == StripPrefixOrSelf(paths[idx + 1].path, root_path)
          depth == Len(rel)
          stack == PopTo(ancestor_stack, depth)
      IN  IF depth > 1 /\ Len(stack) < depth THEN TRUE
          ELSE LabelLoopPanics(paths, root_path, idx + 1, StackUpdate(stack, depth, idx))

BuildTreeLabelsPanics(paths, root_path) == LabelLoopPanics(paths, root_path, 0, <<>>)

\* PASS #2, one iteration per idx; acc = [stack, is_last, labels]
RECURSIVE LabelLoop(_, _, _, _)
LabelLoop(paths, root_path, idx, acc) ==
    IF idx >= Len(paths) THEN acc.labels
    ELSE
      LET path == paths[idx + 1].path
          is_dir == paths[idx + 1].is_dir
          rel == StripPrefixOrSelf(path, root_path)
          depth == Len(rel)
          stack == PopTo(acc.stack, depth)
          is_last_child == LastChildOf(paths, root_path, RelParent(rel)) = idx
          is_last_vec == [acc.is_last EXCEPT ![idx + 1] = is_last_child]
          conts == [k \in 1..(IF depth > 1 THEN depth - 1 ELSE 0) |->
                       ContinuationGlyph(is_last_vec, stack[k + 1])]
          prefix == IF depth > 0
                    THEN ConcatAll(conts) \o (IF is_last_child THEN GlyphLast ELSE GlyphMid)
                    ELSE <<>>
          name == IF Len(rel) = 0 THEN <<".">> ELSE rel[Len(rel)]
          label == IF path = root_path \/ Len(rel) = 0 THEN RootLabel
                   ELSE IF is_dir THEN prefix \o name \o <<"/">>
                   ELSE prefix \o name
      IN  LabelLoop(paths, root_path, idx + 1,
                    [stack |-> StackUpdate(stack, depth, idx),
                     is_last |-> is_last_vec,
                     labels |-> Append(acc.labels, label)])

\* the labels, for an input on which PASS #2 does not panic
build_tree_labels(paths, root_path) ==
    LabelLoop(paths, root_path, 0,
              [stack |-> <<>>,
               is_last |-> [k \in 1..Len(paths) |-> FALSE],
               labels |-> <<>>])

\* ------------------------------------------------ prepare_selectable_items
NotSelected == "NotSelected"
PartiallySelected == "PartiallySelected"
FullySelected == "FullySelected"
SelectionState == {NotSelected, PartiallySelected, FullySelected}

None == -1

\* path_to_idx_map.get(p): the last index holding the path (HashMap::insert overwrites)
PathToIdx(paths, p) ==
    LET hits == {i \in 0..(Len(paths) - 1) : paths[i + 1].path = p}
    IN  IF hits = {} THEN None ELSE CHOOSE i \in hits : \A j \in hits : j <= i

\* the parent index the second loop resolves for entry i
ResolvedParent(paths, root_path, i) ==
    LET path == paths[i + 1].path
        par == PathParent(path)
    IN  IF /\ path # root_path
           /\ par # NoPath
           /\ (par = root_path \/ StartsWith(par, root_path))
        THEN PathToIdx(paths, par)
        ELSE None

prepare_selectable_items(paths, display_labels, root_path) ==
    [k \in 1..(IF Len(paths) <= Len(display_labels) THEN Len(paths) ELSE Len(display_labels)) |->
        LET i == k - 1
            n == IF Len(paths) <= Len(display_labels) THEN Len(paths) ELSE Len(display_labels)
            kids == {c \in 0..(n - 1) : ResolvedParent(paths, root_path, c) = i}
        IN  [path |-> paths[k].path,
             display_text |-> display_labels[k],
             is_dir |-> paths[k].is_dir,
             is_expanded |-> paths[k].is_dir,
             state |-> NotSelected,
             children_indices |->
                 IF paths[k].is_dir
                 THEN LET RECURSIVE Asc(_)
                          Asc(S) == IF S = {} THEN <<>>
                                    ELSE LET m == CHOOSE x \in S : \A y \in S : x <= y
                                         IN  <<m>> \o Asc(S \ {m})
                      IN  Asc(kids)
                 ELSE <<>>,
             parent_index |-> ResolvedParent(paths, root_path, i)]]

\* ------------------------------------------------------ propagation helpers
RECURSIVE apply_state_and_propagate_down_vec(_, _, _), ApplyToChildren(_, _, _)
\* for child_idx in children_indices { apply_state_and_propagate_down_vec(..) }
ApplyToChildren(its, children, st) ==
    IF children = <<>> THEN its
    ELSE ApplyToChildren(apply_state_and_propagate_down_vec(its, Head(children), st),
                         Tail(children), st)

\* mutant: PartiallySelected cascades to the children like the other states
ApplyCascadesPartial(its, item_idx, new_state) ==
    IF item_idx >= Len(its) THEN its
    ELSE
      LET actual_new_state ==
              IF ~its[item_idx + 1].is_dir /\ new_state = PartiallySelected
              THEN FullySelected
              ELSE new_state
          its1 == [its EXCEPT ![item_idx + 1].state = actual_new_state]
      IN  IF its1[item_idx + 1].is_dir
          THEN ApplyToChildren(its1, its1[item_idx + 1].children_indices, actual_new_state)
          ELSE its1

\* mutant: the state reaches the node and its children, not the deeper levels
ApplyOneLevelDown(its, item_idx, new_state) ==
    IF item_idx >= Len(its) THEN its
    ELSE
      LET actual_new_state ==
              IF ~its[item_idx + 1].is_dir /\ new_state = PartiallySelected
              THEN FullySelected
              ELSE new_state
          kids == IF its[item_idx + 1].is_dir /\ actual_new_state # PartiallySelected
                  THEN {its[item_idx + 1].children_indices[k] :
                            k \in 1..Len(its[item_idx + 1].children_indices)}
                  ELSE {}
      IN  [k \in 1..Len(its) |->
              IF k - 1 = item_idx \/ k - 1 \in kids
              THEN [its[k] EXCEPT !.state = actual_new_state]
              ELSE its[k]]

\* mutant: the file coercion of PartiallySelected is left out
ApplyWithoutFileCoercion(its, item_idx, new_state) ==
    IF item_idx >= Len(its) THEN its
    ELSE
      LET its1 == [its EXCEPT ![item_idx + 1].state = new_state]
      IN  IF its1[item_idx + 1].is_dir /\ new_state # PartiallySelected
          THEN ApplyToChildren(its1, its1[item_idx + 1].children_indices, new_state)
          ELSE its1

apply_state_and_propagate_down_vec(its, item_idx, new_state) ==
    IF item_idx >= Len(its) THEN its
    ELSE
      LET actual_new_state ==
              IF ~its[item_idx + 1].is_dir /\ new_state = PartiallySelected
              THEN FullySelected
              ELSE new_state
          its1 == [its EXCEPT ![item_idx + 1].state = actual_new_state]
      IN  IF its1[item_idx + 1].is_dir /\ actual_new_state # PartiallySelected
          THEN ApplyToChildren(its1, its1[item_idx + 1].children_indices, actual_new_state)
          ELSE its1

\* number of entries of children (out-of-range ones skipped) in state st
RECURSIVE CountChildren(_, _, _)
CountChildren(its, children, st) ==
    IF children = <<>> THEN 0
    ELSE (IF Head(children) < Len(its) /\ its[Head(children) + 1].state = st THEN 1 ELSE 0)
         + CountChildren(its, Tail(children), st)

\* mutant: one FullySelected child is enough for a FullySelected parent
RecalculateFullIfAnyChildFull(its, parent_idx) ==
    IF parent_idx >= Len(its) \/ ~its[parent_idx + 1].is_dir THEN its
    ELSE
      LET children_indices == its[parent_idx + 1].children_indices
          num_fully_selected_children == CountChildren(its, children_indices, FullySelected)
          num_partially_selected_children == CountChildren(its, children_indices, PartiallySelected)
      IN  IF children_indices = <<>> THEN its
          ELSE [its EXCEPT ![parent_idx + 1].state =
                   IF num_fully_selected_children > 0
                   THEN FullySelected
                   ELSE IF num_partially_selected_children > 0
                   THEN PartiallySelected
                   ELSE NotSelected]

recalculate_parent_state_vec(its, parent_idx) ==
    IF parent_idx >= Len(its) \/ ~its[parent_idx + 1].is_dir THEN its
    ELSE
      LET children_indices == its[parent_idx + 1].children_indices
          num_fully_selected_children == CountChildren(its, children_indices, FullySelected)
          num_partially_selected_children == CountChildren(its, children_indices, PartiallySelected)
          total_children == Len(children_indices)
      IN  IF children_indices = <<>> THEN its
          ELSE [its EXCEPT ![parent_idx + 1].state =
                   IF num_fully_selected_children = total_children /\ total_children > 0
                   THEN FullySelected
                   ELSE IF num_fully_selected_children > 0 \/ num_partially_selected_children > 0
                   THEN PartiallySelected
                   ELSE NotSelected]

\* while let Some(parent_idx) = current_parent_idx_opt { .. }
RECURSIVE UpdateParentsLoop(_, _)
UpdateParentsLoop(its, current_parent_idx_opt) ==
    IF current_parent_idx_opt = None THEN its
    ELSE LET its1 == recalculate_parent_state_vec(its, current_parent_idx_opt)
         IN  IF current_parent_idx_opt >= Len(its1) THEN its1
             ELSE UpdateParentsLoop(its1, its1[current_parent_idx_opt + 1].parent_index)

\* mutant: only the direct parent is recomputed
UpdateDirectParentOnly(its, child_idx) ==
    IF child_idx >= Len(its) THEN its
    ELSE IF its[child_idx + 1].parent_index = None THEN its
    ELSE recalculate_parent_state_vec(its, its[child_idx + 1].parent_index)

update_all_parent_states_from_child_vec(its, child_idx) ==
    IF child_idx >= Len(its) THEN its
    ELSE UpdateParentsLoop(its, its[child_idx + 1].parent_index)

\* --------------------------------------------------------------- visibility
RECURSIVE is_item_visible_recursive(_, _)
\* mutant: only the direct parent's expansion is looked at
IsVisibleUnderParentOnly(its, item_idx) ==
    IF item_idx >= Len(its) THEN FALSE
    ELSE LET parent_idx == its[item_idx + 1].parent_index
         IN  IF parent_idx = None THEN TRUE
             ELSE IF parent_idx >= Len(its) THEN FALSE
             ELSE its[parent_idx + 1].is_expanded

is_item_visible_recursive(its, item_idx) ==
    IF item_idx >= Len(its) THEN FALSE
    ELSE LET parent_idx == its[item_idx + 1].parent_index
         IN  IF parent_idx = None THEN TRUE
             ELSE IF parent_idx >= Len(its) THEN FALSE
             ELSE its[parent_idx + 1].is_expanded /\ is_item_visible_recursive(its, parent_idx)

RECURSIVE item_matches_filter_or_has_matching_descendant(_, _, _), AnyChildMatches(_, _, _)
\* mutant: only the last child is searched
AnyChildMatchesLastOnly(its, children, lower_filter) ==
    IF children = <<>> THEN FALSE
    ELSE item_matches_filter_or_has_matching_descendant(its, children[Len(children)], lower_filter)

AnyChildMatches(its, children, lower_filter) ==
    IF children = <<>> THEN FALSE
    ELSE \/ item_matches_filter_or_has_matching_descendant(its, Head(children), lower_filter)
         \/ AnyChildMatches(its, Tail(children), lower_filter)

\* mutant: the descendants are not searched
ItemMatchesOwnLabelOnly(its, item_idx, lower_filter) ==
    IF item_idx >= Len(its) THEN FALSE
    ELSE Contains(ToLowercase(its[item_idx + 1].display_text), lower_filter)

item_matches_filter_or_has_matching_descendant(its, item_idx, lower_filter) ==
    IF item_idx >= Len(its) THEN FALSE
    ELSE IF Contains(ToLowercase(its[item_idx + 1].display_text), lower_filter) THEN TRUE
    ELSE IF its[item_idx + 1].is_dir
         THEN AnyChildMatches(its, its[item_idx + 1].children_indices, lower_filter)
         ELSE FALSE

\* mutant: a collapsed directory is not listed itself
ItemListedUnlessCollapsed(its, filter, i) ==
    LET filter_active == filter # <<>>
        lower_filter == ToLowercase(filter)
    IN  /\ is_item_visible_recursive(its, i)
        /\ (its[i + 1].is_dir => its[i + 1].is_expanded)
        /\ (filter_active => item_matches_filter_or_has_matching_descendant(its, i, lower_filter))

\* the body of the for loop of get_visible_item_indices for index i
ItemListed(its, filter, i) ==
    LET filter_active == filter # <<>>
        lower_filter == ToLowercase(filter)
    IN  /\ is_item_visible_recursive(its, i)
        /\ (filter_active => item_matches_filter_or_has_matching_descendant(its, i, lower_filter))

RECURSIVE VisibleLoop(_, _, _)
VisibleLoop(its, filter, i) ==
    IF i >= Len(its) THEN <<>>
    ELSE (IF ItemListed(its, filter, i) THEN <<i>> ELSE <<>>) \o VisibleLoop(its, filter, i + 1)

get_visible_item_indices(its, filter) == VisibleLoop(its, filter, 0)

\* Iterator::position, None when absent
Position(seq, x) ==
    IF \E k \in 1..Len(seq) : seq[k] = x
    THEN (CHOOSE k \in 1..Len(seq) : seq[k] = x /\ \A j \in 1..(k - 1) : seq[j] # x) - 1
    ELSE None

SeqContains(seq, x) == \E k \in 1..Len(seq) : seq[k] = x

Min(a, b) == IF a <= b THEN a ELSE b

\* ----------------------------------------------------------------- viewport
\* these return the fields of TuiApp they may write: [cur, scroll]
\* mutant: a selection below the window is aligned to the top edge
EnsureInViewportTopAligned(its, filter, height, cur, scroll) ==
    IF Len(its) = 0 \/ height = 0 THEN [cur |-> cur, scroll |-> scroll]
    ELSE
      LET visible_indices == get_visible_item_indices(its, filter)
          pos == Position(visible_indices, cur)
          cur1 == IF pos # None THEN cur ELSE visible_indices[1]
          scroll1 == IF pos # None
                     THEN IF pos < scroll \/ pos >= scroll + height THEN pos ELSE scroll
                     ELSE 0
          num_visible_items == Len(visible_indices)
      IN  IF visible_indices = <<>> THEN [cur |-> cur, scroll |-> 0]
          ELSE [cur |-> cur1,
                scroll |-> IF num_visible_items <= height THEN 0
                           ELSE Min(scroll1, num_visible_items - height)]

ensure_selection_is_visible_in_viewport(its, filter, height, cur, scroll) ==
    IF Len(its) = 0 \/ height = 0 THEN [cur |-> cur, scroll |-> scroll]
    ELSE
      LET visible_indices == get_visible_item_indices(its, filter)
          pos == Position(visible_indices, cur)
          cur1 == IF pos # None THEN cur ELSE visible_indices[1]
          scroll1 == IF pos # None
                     THEN IF pos < scroll THEN pos
                          ELSE IF pos >= scroll + height
                               THEN (IF pos >= height - 1 THEN pos - (height - 1) ELSE 0)
                               ELSE scroll
                     ELSE 0
          num_visible_items == Len(visible_indices)
      IN  IF visible_indices = <<>> THEN [cur |-> cur, scroll |-> 0]
          ELSE [cur |-> cur1,
                scroll |-> IF num_visible_items <= height THEN 0
                           ELSE Min(scroll1, num_visible_items - height)]

ensure_selection_is_valid_after_filter(its, filter, height, cur, scroll) ==
    LET visible_indices == get_visible_item_indices(its, filter)
    IN  IF visible_indices = <<>> THEN [cur |-> cur, scroll |-> scroll]
        ELSE ensure_selection_is_visible_in_viewport(its, filter, height,
                 IF SeqContains(visible_indices, cur) THEN cur ELSE visible_indices[1],
                 scroll)

\* the while-let loop: climb to the first hierarchically visible ancestor,
\* None when the climb ends without one; Last is the candidate the loop ends on
RECURSIVE ClimbToVisible(_, _)
ClimbToVisible(its, candidate_idx) ==
    LET parent_idx == IF candidate_idx < Len(its) THEN its[candidate_idx + 1].parent_index ELSE None
    IN  IF parent_idx = None THEN [found |-> None, last |-> candidate_idx]
        ELSE IF is_item_visible_recursive(its, parent_idx)
             THEN [found |-> parent_idx, last |-> parent_idx]
             ELSE ClimbToVisible(its, parent_idx)

\* mutant: the selection is kept when it is hidden; only the viewport is adjusted
EnsureVisibleWithoutClimb(its, filter, height, cur, scroll) ==
    IF Len(its) = 0 THEN [cur |-> cur, scroll |-> scroll]
    ELSE ensure_selection_is_visible_in_viewport(its, filter, height, cur, scroll)

ensure_selection_is_visible(its, filter, height, cur, scroll) ==
    IF Len(its) = 0 THEN [cur |-> cur, scroll |-> scroll]
    ELSE IF is_item_visible_recursive(its, cur)
    THEN ensure_selection_is_visible_in_viewport(its, filter, height, cur, scroll)
    ELSE
      LET climb == ClimbToVisible(its, cur)
          visible_indices == get_visible_item_indices(its, filter)
      IN  IF climb.found # None
          THEN ensure_selection_is_visible_in_viewport(its, filter, height, climb.found, scroll)
          ELSE IF is_item_visible_recursive(its, climb.last)
          THEN ensure_selection_is_visible_in_viewport(its, filter, height, climb.last, scroll)
          ELSE ensure_selection_is_visible_in_viewport(its, filter, height,
                   IF visible_indices # <<>> THEN visible_indices[1] ELSE 0, scroll)

\* ----------------------------------------------------------------- inputs
RootPath == << <<".">> >>

P(path, is_dir) == [path |-> path, is_dir |-> is_dir]

\* an empty scan root: run_interactive_mode inserts the root alone
InputRootOnly == << P(RootPath, TRUE) >>

\* ./  a/  a/b/  a/b/C  a/d      (sorted by path)
InputTree ==
    << P(RootPath, TRUE),
       P(RootPath \o << <<"a">> >>, TRUE),
       P(RootPath \o << <<"a">>, <<"b">> >>, TRUE),
       P(RootPath \o << <<"a">>, <<"b">>, <<"C">> >>, FALSE),
       P(RootPath \o << <<"a">>, <<"d">> >>, FALSE) >>

\* ./  a  x/y/  x/y/f : the directory x is absent, so x/y has no parent in the
\* arena.  run_interactive_mode adds every ancestor it finds in the scan, but
\* prepare_selectable_items and run_tui_with_prepared_items accept any list.
InputOrphan ==
    << P(RootPath, TRUE),
       P(RootPath \o << <<"a">> >>, FALSE),
       P(RootPath \o << <<"x">>, <<"y">> >>, TRUE),
       P(RootPath \o << <<"x">>, <<"y">>, <<"f">> >>, FALSE) >>

Inputs == {InputRootOnly, InputTree, InputOrphan}

\* the entries the inputs of build_tree_labels are drawn from, in the order
\* sort_by(|a, b| a.cmp(b)) gives them
Universe ==
    << P(RootPath, TRUE),
       P(RootPath \o << <<"d", "o", "c", "s">> >>, TRUE),
       P(RootPath \o << <<"s", "r", "c">> >>, TRUE),
       P(RootPath \o << <<"s", "r", "c">>, <<"a", ".", "t", "x", "t">> >>, FALSE),
       P(RootPath \o << <<"s", "r", "c">>, <<"b", ".", "t", "x", "t">> >>, FALSE),
       P(RootPath \o << <<"s", "r", "c">>, <<"l", "i", "b">> >>, TRUE),
       P(RootPath \o << <<"s", "r", "c">>, <<"l", "i", "b">>, <<"m", ".", "r", "s">> >>, FALSE),
       P(RootPath \o << <<"x">> >>, FALSE) >>

\* the entries of Universe at the positions in S, in order
RECURSIVE Pick(_, _)
Pick(S, k) ==
    IF k > Len(Universe) THEN <<>>
    ELSE (IF k \in S THEN <<Universe[k]>> ELSE <<>>) \o Pick(S, k + 1)

\* ./  ./src  ./src/a.txt  ./src/b.txt  ./docs  in this order
ExampleTree == << Universe[1], Universe[3], Universe[4], Universe[5], Universe[2] >>

\* ./  ./x  ./x/y : the scan reported ./x as a file (is_dir = false) and an
\* entry below it
FileParentTree ==
    << Universe[1], Universe[8], P(RootPath \o << <<"x">>, <<"y">> >>, FALSE) >>

\* every sorted list over Universe, complete or with parents missing, the
\* example tree and the list with a file as parent
LabelInputs ==
    {Pick(S, 1) : S \in SUBSET (1..Len(Universe))} \cup {ExampleTree, FileParentTree}

Arena(paths) == prepare_selectable_items(paths, build_tree_labels(paths, RootPath), RootPath)

\* the characters KeyCode::Char delivers in Filtering mode: "C" matches the file
\* a/b/C once both sides are lowercased, U+00C9 (two bytes) matches no label
FilterChars == {"C", "U+00C9"}

\* ------------------------------------------------------------------- state
VARIABLES
    items,                  \* TuiApp.items: Vec<SelectableItem>
    current_selection_idx,
    scroll_offset,
    quit,
    confirmed,
    mode,                   \* AppMode
    filter_input,
    filter_cursor_pos,      \* byte offset into filter_input
    list_viewport_height,
    pc,                     \* position of run_interactive_mode / run_tui_with_prepared_items
    result,                 \* what run_tui_with_prepared_items returned
    last_event,             \* the operation applied last (history)
    before,                 \* what that operation started from (history), see Snapshot
    paths,                  \* the sorted (path, is_dir) list handed to build_tree_labels
    display_labels,         \* what build_tree_labels returned for it
    terminal                \* raw mode and alternate screen of the controlling terminal

vars == <<items, current_selection_idx, scroll_offset, quit, confirmed, mode,
          filter_input, filter_cursor_pos, list_viewport_height, pc, result,
          last_event, before, paths, display_labels, terminal>>

Normal == "Normal"
Filtering == "Filtering"

\* Result<Option<Vec<SelectableItem>>> of run_tui_with_prepared_items
Pending == [tag |-> "Pending", items |-> <<>>]
Cancelled == [tag |-> "None", items |-> <<>>]
Some(its) == [tag |-> "Some", items |-> its]
Failed == [tag |-> "Err", items |-> <<>>]

\* the terminal as the shell left it, and as init_terminal leaves it
Cooked == [raw_mode |-> FALSE, alternate_screen |-> FALSE]
RawAlternate == [raw_mode |-> TRUE, alternate_screen |-> TRUE]

Indices(its) == 0..(Len(its) - 1)

\* history: the selection states and the filter text an operation that changes
\* selection states or clears the filter started from; NoSnapshot after the others
NoSnapshot == <<>>
Snapshot == [states |-> [k \in 1..Len(items) |-> items[k].state], filter |-> filter_input]

\* prepare_selectable_items has run; the TuiApp fields hold the values of TuiApp::new
Init ==
    /\ paths \in Inputs
    /\ display_labels = build_tree_labels(paths, RootPath)
    /\ items = prepare_selectable_items(paths, display_labels, RootPath)
    /\ terminal = Cooked
    /\ current_selection_idx = 0
    /\ scroll_offset = 0
    /\ quit = FALSE
    /\ confirmed = FALSE
    /\ mode = Normal
    /\ filter_input = <<>>
    /\ filter_cursor_pos = 0
    /\ list_viewport_height = 0
    /\ pc = "preselect"
    /\ result = Pending
    /\ last_event = "new"
    /\ before = NoSnapshot

\* --------------------------------------------------------- pre-selection
RECURSIVE ApplyEach(_, _, _), UpdateEach(_, _)
ApplyEach(its, idxs, st) ==
    IF idxs = <<>> THEN its
    ELSE ApplyEach(apply_state_and_propagate_down_vec(its, Head(idxs), st), Tail(idxs), st)

UpdateEach(its, idxs) ==
    IF idxs = <<>> THEN its
    ELSE UpdateEach(update_all_parent_states_from_child_vec(its, Head(idxs)), Tail(idxs))

\* the indices of S in increasing order
RECURSIVE Ascending(_)
Ascending(S) ==
    IF S = {} THEN <<>>
    ELSE LET m == CHOOSE x \in S : \A y \in S : x <= y IN <<m>> \o Ascending(S \ {m})

\* mutant: only the ancestors of the last matched file are recomputed
PreselectRefreshesLastOnly(matched) ==
    /\ pc = "preselect"
    /\ \A i \in matched : ~items[i + 1].is_dir
    /\ LET matched_item_indices == Ascending(matched)
           applied == ApplyEach(items, matched_item_indices, FullySelected)
       IN  items' = IF matched = {} THEN applied
                    ELSE update_all_parent_states_from_child_vec(
                             applied, matched_item_indices[Len(matched_item_indices)])
    /\ pc' = "start"
    /\ last_event' = "preselect"
    /\ before' = Snapshot
    /\ UNCHANGED <<paths, display_labels, terminal>>
    /\ UNCHANGED <<current_selection_idx, scroll_offset, quit, confirmed, mode,
                   filter_input, filter_cursor_pos, list_viewport_height, result>>

\* run_interactive_mode: the files matched by the --select globs (none without
\* globs) are set FullySelected, then the ancestors of each are recomputed
Preselect(matched) ==
    /\ pc = "preselect"
    /\ \A i \in matched : ~items[i + 1].is_dir
    /\ LET matched_item_indices == Ascending(matched)
       IN  items' = UpdateEach(ApplyEach(items, matched_item_indices, FullySelected),
                               matched_item_indices)
    /\ pc' = "start"
    /\ last_event' = "preselect"
    /\ before' = Snapshot
    /\ UNCHANGED <<paths, display_labels, terminal>>
    /\ UNCHANGED <<current_selection_idx, scroll_offset, quit, confirmed, mode,
                   filter_input, filter_cursor_pos, list_viewport_height, result>>

\* run_tui_with_prepared_items up to the loop: TuiApp::new, init_terminal with
\* every step succeeding, ensure_selection_is_visible
StartTui ==
    /\ pc = "start"
    /\ IF Len(items) = 0
       THEN /\ pc' = "done"
            /\ result' = Cancelled
            /\ UNCHANGED <<current_selection_idx, scroll_offset, terminal>>
       ELSE LET r == ensure_selection_is_visible(items, <<>>, 0, 0, 0)
            IN  /\ current_selection_idx' = r.cur
                /\ scroll_offset' = r.scroll
                /\ terminal' = RawAlternate
                /\ pc' = "draw"
                /\ result' = Pending
    /\ last_event' = "start"
    /\ before' = NoSnapshot
    /\ UNCHANGED <<paths, display_labels>>
    /\ UNCHANGED <<items, quit, confirmed, mode, filter_input, filter_cursor_pos,
                   list_viewport_height>>

\* the steps of init_terminal, in order
InitSteps == {"enable_raw_mode", "execute", "Terminal::new"}

\* init_terminal()? with one step returning Err: the steps before it have taken
\* effect, and the error leaves run_tui_with_prepared_items at once
InitTerminalFails(step) ==
    /\ pc = "start"
    /\ Len(items) > 0
    /\ terminal' = [raw_mode |-> step # "enable_raw_mode",
                    alternate_screen |-> step = "Terminal::new"]
    /\ pc' = "failed"
    /\ result' = Failed
    /\ last_event' = "init_failed"
    /\ before' = NoSnapshot
    /\ UNCHANGED <<paths, display_labels>>
    /\ UNCHANGED <<items, current_selection_idx, scroll_offset, quit, confirmed, mode,
                   filter_input, filter_cursor_pos, list_viewport_height>>

\* ------------------------------------------------------------------- loop
\* mutant: the draw stores the height and leaves the viewport as it was
DrawWithoutAdjust(h) ==
    /\ pc = "draw"
    /\ ~quit
    /\ list_viewport_height' = h
    /\ pc' = "event"
    /\ last_event' = "draw"
    /\ before' = NoSnapshot
    /\ UNCHANGED <<paths, display_labels, terminal>>
    /\ UNCHANGED <<items, current_selection_idx, scroll_offset, quit, confirmed, mode,
                   filter_input, filter_cursor_pos, result>>

\* terminal.draw(ui_frame): draw_main_list_block stores the height of the list
\* area and re-adjusts the viewport
Draw(h) ==
    /\ pc = "draw"
    /\ ~quit
    /\ LET r == ensure_selection_is_visible_in_viewport(items, filter_input, h,
                    current_selection_idx, scroll_offset)
       IN  /\ current_selection_idx' = r.cur
           /\ scroll_offset' = r.scroll
    /\ list_viewport_height' = h
    /\ pc' = "event"
    /\ last_event' = "draw"
    /\ before' = NoSnapshot
    /\ UNCHANGED <<paths, display_labels, terminal>>
    /\ UNCHANGED <<items, quit, confirmed, mode, filter_input, filter_cursor_pos, result>>

\* the TuiApp is dropped when an error leaves run_tui_with_prepared_items
AppDropped ==
    /\ items' = <<>>
    /\ current_selection_idx' = 0
    /\ scroll_offset' = 0
    /\ quit' = FALSE
    /\ confirmed' = FALSE
    /\ mode' = Normal
    /\ filter_input' = <<>>
    /\ filter_cursor_pos' = 0
    /\ list_viewport_height' = 0

\* terminal.draw(..)? returns Err: the function returns it, restore_terminal is
\* not reached
DrawFails ==
    /\ pc = "draw"
    /\ ~quit
    /\ pc' = "failed"
    /\ result' = Failed
    /\ AppDropped
    /\ last_event' = "draw_failed"
    /\ before' = NoSnapshot
    /\ UNCHANGED <<paths, display_labels, terminal>>

\* handle_events(..)?: event::poll or event::read returns Err
EventFails ==
    /\ pc = "event"
    /\ pc' = "failed"
    /\ result' = Failed
    /\ AppDropped
    /\ last_event' = "event_failed"
    /\ before' = NoSnapshot
    /\ UNCHANGED <<paths, display_labels, terminal>>

\* the steps of restore_terminal, in order
RestoreSteps == {"disable_raw_mode", "execute", "show_cursor"}

\* restore_terminal(terminal)? with one step returning Err after the loop
RestoreTerminalFails(step) ==
    /\ pc = "draw"
    /\ quit
    /\ terminal' = [raw_mode |-> step = "disable_raw_mode",
                    alternate_screen |-> step # "show_cursor"]
    /\ pc' = "failed"
    /\ result' = Failed
    /\ AppDropped
    /\ last_event' = "restore_failed"
    /\ before' = NoSnapshot
    /\ UNCHANGED <<paths, display_labels>>

\* mutant: the items are handed back whether or not the session was confirmed
ExitLoopAlwaysHandsBack ==
    /\ pc = "draw"
    /\ quit
    /\ terminal' = Cooked
    /\ pc' = "done"
    /\ result' = Some(items)
    /\ last_event' = "exit"
    /\ before' = NoSnapshot
    /\ UNCHANGED <<paths, display_labels>>
    /\ UNCHANGED <<items, current_selection_idx, scroll_offset, quit, confirmed, mode,
                   filter_input, filter_cursor_pos, list_viewport_height>>

\* while !app.quit fails: restore_terminal, then Some(items) iff confirmed
ExitLoop ==
    /\ pc = "draw"
    /\ quit
    /\ terminal' = Cooked
    /\ pc' = "done"
    /\ result' = IF confirmed THEN Some(items) ELSE Cancelled
    /\ last_event' = "exit"
    /\ before' = NoSnapshot
    /\ UNCHANGED <<paths, display_labels>>
    /\ UNCHANGED <<items, current_selection_idx, scroll_offset, quit, confirmed, mode,
                   filter_input, filter_cursor_pos, list_viewport_height>>

\* handle_events: the poll timed out, or the key is bound to nothing in this mode
NoEvent ==
    /\ pc = "event"
    /\ pc' = "draw"
    /\ last_event' = "none"
    /\ before' = NoSnapshot
    /\ UNCHANGED <<paths, display_labels, terminal>>
    /\ UNCHANGED <<items, current_selection_idx, scroll_offset, quit, confirmed, mode,
                   filter_input, filter_cursor_pos, list_viewport_height, result>>

\* ------------------------------------------------------- TuiApp operations
\* i32::rem_euclid for a positive modulus
RemEuclid(a, m) == a % m

\* mutant: the selection stops at both ends of the visible list instead of wrapping
MoveWithoutWrap(its, filter, cur, delta) ==
    LET visible_indices == get_visible_item_indices(its, filter)
        pos == Position(visible_indices, cur)
        new_idx_in_visible_list ==
            IF pos # None
            THEN (IF pos + delta < 0 THEN 0
                  ELSE IF pos + delta >= Len(visible_indices) THEN Len(visible_indices) - 1
                  ELSE pos + delta)
            ELSE IF delta > 0 THEN 0 ELSE Len(visible_indices) - 1
    IN  IF Len(its) = 0 \/ visible_indices = <<>> THEN cur
        ELSE visible_indices[new_idx_in_visible_list + 1]

\* returns the new current_selection_idx
move_selection_in_visible_list(its, filter, cur, delta) ==
    LET visible_indices == get_visible_item_indices(its, filter)
        pos == Position(visible_indices, cur)
        new_idx_in_visible_list ==
            IF pos # None THEN RemEuclid(pos + delta, Len(visible_indices))
            ELSE IF delta > 0 THEN 0 ELSE Len(visible_indices) - 1
    IN  IF Len(its) = 0 \/ visible_indices = <<>> THEN cur
        ELSE visible_indices[new_idx_in_visible_list + 1]

\* mutant: the toggle selects whatever the state was
ToggleSelectsOnly(its, cur) ==
    IF Len(its) = 0 \/ cur >= Len(its) THEN its
    ELSE update_all_parent_states_from_child_vec(
             apply_state_and_propagate_down_vec(its, cur, FullySelected), cur)

\* mutant: the new state is applied from the parent of the current node
ToggleFromParent(its, cur) ==
    IF Len(its) = 0 \/ cur >= Len(its) THEN its
    ELSE LET new_state_for_item ==
                 IF its[cur + 1].state = FullySelected THEN NotSelected ELSE FullySelected
             top == IF its[cur + 1].parent_index = None THEN cur
                    ELSE its[cur + 1].parent_index
         IN  update_all_parent_states_from_child_vec(
                 apply_state_and_propagate_down_vec(its, top, new_state_for_item), top)

\* mutant: a PartiallySelected node is cleared instead of selected
ToggleClearsPartial(its, cur) ==
    IF Len(its) = 0 \/ cur >= Len(its) THEN its
    ELSE LET new_state_for_item ==
                 IF its[cur + 1].state = NotSelected THEN FullySelected ELSE NotSelected
         IN  update_all_parent_states_from_child_vec(
                 apply_state_and_propagate_down_vec(its, cur, new_state_for_item), cur)

\* returns the new items
toggle_current_item_selection(its, cur) ==
    IF Len(its) = 0 \/ cur >= Len(its) THEN its
    ELSE LET new_state_for_item ==
                 IF its[cur + 1].state = FullySelected THEN NotSelected ELSE FullySelected
         IN  update_all_parent_states_from_child_vec(
                 apply_state_and_propagate_down_vec(its, cur, new_state_for_item), cur)

RECURSIVE SelectLoop(_, _), DeselectLoop(_, _), DeselectLoopWithoutCascade(_, _),
          SelectLoopToggling(_, _)
\* mutant: each listed file is toggled instead of selected
SelectLoopToggling(its, idxs) ==
    IF idxs = <<>> THEN its
    ELSE SelectLoopToggling(
             IF ~its[Head(idxs) + 1].is_dir
             THEN toggle_current_item_selection(its, Head(idxs))
             ELSE its,
             Tail(idxs))

SelectLoop(its, idxs) ==
    IF idxs = <<>> THEN its
    ELSE SelectLoop(
             IF ~its[Head(idxs) + 1].is_dir
             THEN update_all_parent_states_from_child_vec(
                      apply_state_and_propagate_down_vec(its, Head(idxs), FullySelected),
                      Head(idxs))
             ELSE its,
             Tail(idxs))

\* mutant: each listed node is cleared alone, its descendants are left as they are
DeselectLoopWithoutCascade(its, idxs) ==
    IF idxs = <<>> THEN its
    ELSE DeselectLoopWithoutCascade(
             update_all_parent_states_from_child_vec(
                 [its EXCEPT ![Head(idxs) + 1].state = NotSelected],
                 Head(idxs)),
             Tail(idxs))

DeselectLoop(its, idxs) ==
    IF idxs = <<>> THEN its
    ELSE DeselectLoop(
             update_all_parent_states_from_child_vec(
                 apply_state_and_propagate_down_vec(its, Head(idxs), NotSelected),
                 Head(idxs)),
             Tail(idxs))

\* mutant: every file of the arena is selected, visible or not
SelectAllFiles(its, filter) ==
    SelectLoop(its, [k \in 1..Len(its) |-> k - 1])

\* mutant: directories are skipped, as select_all_visible_items skips them
DeselectVisibleFilesOnly(its, filter) ==
    LET v == get_visible_item_indices(its, filter)
    IN  DeselectLoop(its, SelectSeq(v, LAMBDA i : ~its[i + 1].is_dir))

select_all_visible_items(its, filter) ==
    SelectLoop(its, get_visible_item_indices(its, filter))

deselect_all_visible_items(its, filter) ==
    DeselectLoop(its, get_visible_item_indices(its, filter))

\* the loops of expand_all_directories / collapse_all_directories over the items
ExpandedAll(its) ==
    [k \in 1..Len(its) |->
        IF its[k].is_dir THEN [its[k] EXCEPT !.is_expanded = TRUE] ELSE its[k]]

CollapsedAll(its) ==
    [k \in 1..Len(its) |->
        IF its[k].is_dir
        THEN IF its[k].parent_index # None \/ its[k].path # its[1].path
             THEN [its[k] EXCEPT !.is_expanded = FALSE]
             ELSE [its[k] EXCEPT !.is_expanded = TRUE]
        ELSE its[k]]

\* mutant: collapsing a directory also clears the selection below it
ToggledExpansionClearing(its, cur) ==
    LET flipped == [its EXCEPT ![cur + 1].is_expanded = ~its[cur + 1].is_expanded]
    IN  IF its[cur + 1].is_expanded
        THEN ApplyToChildren(flipped, flipped[cur + 1].children_indices, NotSelected)
        ELSE flipped

\* the flip of toggle_expansion_and_adjust_selection
ToggledExpansion(its, cur) ==
    [its EXCEPT ![cur + 1].is_expanded = ~its[cur + 1].is_expanded]

\* ------------------------------------------------- handle_normal_mode_input
NormalKey == pc = "event" /\ mode = Normal

\* KeyCode::Char('/')
EnterFilterMode ==
    /\ NormalKey
    /\ mode' = Filtering
    /\ pc' = "draw"
    /\ last_event' = "enter_filter"
    /\ before' = NoSnapshot
    /\ UNCHANGED <<paths, display_labels, terminal>>
    /\ UNCHANGED <<items, current_selection_idx, scroll_offset, quit, confirmed,
                   filter_input, filter_cursor_pos, list_viewport_height, result>>

\* KeyCode::Char('q') | KeyCode::Esc
QuitKey ==
    /\ NormalKey
    /\ quit' = TRUE
    /\ pc' = "draw"
    /\ last_event' = "quit"
    /\ before' = NoSnapshot
    /\ UNCHANGED <<paths, display_labels, terminal>>
    /\ UNCHANGED <<items, current_selection_idx, scroll_offset, confirmed, mode,
                   filter_input, filter_cursor_pos, list_viewport_height, result>>

\* KeyCode::Char('y')
ConfirmKey ==
    /\ NormalKey
    /\ confirmed' = TRUE
    /\ quit' = TRUE
    /\ pc' = "draw"
    /\ last_event' = "confirm"
    /\ before' = NoSnapshot
    /\ UNCHANGED <<paths, display_labels, terminal>>
    /\ UNCHANGED <<items, current_selection_idx, scroll_offset, mode,
                   filter_input, filter_cursor_pos, list_viewport_height, result>>

\* KeyCode::Down | 'j'
SelectNext ==
    /\ NormalKey
    /\ current_selection_idx' =
           move_selection_in_visible_list(items, filter_input, current_selection_idx, 1)
    /\ pc' = "draw"
    /\ last_event' = "next"
    /\ before' = NoSnapshot
    /\ UNCHANGED <<paths, display_labels, terminal>>
    /\ UNCHANGED <<items, scroll_offset, quit, confirmed, mode,
                   filter_input, filter_cursor_pos, list_viewport_height, result>>

\* KeyCode::Up | 'k'
SelectPrevious ==
    /\ NormalKey
    /\ current_selection_idx' =
           move_selection_in_visible_list(items, filter_input, current_selection_idx, -1)
    /\ pc' = "draw"
    /\ last_event' = "previous"
    /\ before' = NoSnapshot
    /\ UNCHANGED <<paths, display_labels, terminal>>
    /\ UNCHANGED <<items, scroll_offset, quit, confirmed, mode,
                   filter_input, filter_cursor_pos, list_viewport_height, result>>

\* KeyCode::Char(' ') | KeyCode::Enter
ToggleSelection ==
    /\ NormalKey
    /\ items' = toggle_current_item_selection(items, current_selection_idx)
    /\ pc' = "draw"
    /\ last_event' = "toggle"
    /\ before' = Snapshot
    /\ UNCHANGED <<paths, display_labels, terminal>>
    /\ UNCHANGED <<current_selection_idx, scroll_offset, quit, confirmed, mode,
                   filter_input, filter_cursor_pos, list_viewport_height, result>>

\* KeyCode::Char('o') | KeyCode::Tab
ToggleExpansion ==
    /\ NormalKey
    /\ IF Len(items) = 0 \/ current_selection_idx >= Len(items)
          \/ ~items[current_selection_idx + 1].is_dir
       THEN UNCHANGED <<items, current_selection_idx, scroll_offset>>
       ELSE LET its1 == ToggledExpansion(items, current_selection_idx)
                r == ensure_selection_is_visible(its1, filter_input, list_viewport_height,
                         current_selection_idx, scroll_offset)
            IN  /\ items' = its1
                /\ current_selection_idx' = r.cur
                /\ scroll_offset' = r.scroll
    /\ pc' = "draw"
    /\ last_event' = "toggle_expansion"
    /\ before' = NoSnapshot
    /\ UNCHANGED <<paths, display_labels, terminal>>
    /\ UNCHANGED <<quit, confirmed, mode, filter_input, filter_cursor_pos,
                   list_viewport_height, result>>

\* KeyCode::Char('*')
ExpandAll ==
    /\ NormalKey
    /\ LET its1 == ExpandedAll(items)
           r == ensure_selection_is_visible(its1, filter_input, list_viewport_height,
                    current_selection_idx, scroll_offset)
       IN  /\ items' = its1
           /\ current_selection_idx' = r.cur
           /\ scroll_offset' = r.scroll
    /\ pc' = "draw"
    /\ last_event' = "expand_all"
    /\ before' = NoSnapshot
    /\ UNCHANGED <<paths, display_labels, terminal>>
    /\ UNCHANGED <<quit, confirmed, mode, filter_input, filter_cursor_pos,
                   list_viewport_height, result>>

\* KeyCode::Char('-')
CollapseAll ==
    /\ NormalKey
    /\ LET its1 == CollapsedAll(items)
           r == ensure_selection_is_visible(its1, filter_input, list_viewport_height,
                    current_selection_idx, scroll_offset)
       IN  /\ items' = its1
           /\ current_selection_idx' = r.cur
           /\ scroll_offset' = r.scroll
    /\ pc' = "draw"
    /\ last_event' = "collapse_all"
    /\ before' = NoSnapshot
    /\ UNCHANGED <<paths, display_labels, terminal>>
    /\ UNCHANGED <<quit, confirmed, mode, filter_input, filter_cursor_pos,
                   list_viewport_height, result>>

\* KeyCode::Char('a') without modifiers or with CONTROL, 'A' with CONTROL
SelectAllVisible ==
    /\ NormalKey
    /\ items' = select_all_visible_items(items, filter_input)
    /\ pc' = "draw"
    /\ last_event' = "select_all"
    /\ before' = Snapshot
    /\ UNCHANGED <<paths, display_labels, terminal>>
    /\ UNCHANGED <<current_selection_idx, scroll_offset, quit, confirmed, mode,
                   filter_input, filter_cursor_pos, list_viewport_height, result>>

\* KeyCode::Char('d') without modifiers
DeselectAllVisible ==
    /\ NormalKey
    /\ items' = deselect_all_visible_items(items, filter_input)
    /\ pc' = "draw"
    /\ last_event' = "deselect_all"
    /\ before' = Snapshot
    /\ UNCHANGED <<paths, display_labels, terminal>>
    /\ UNCHANGED <<current_selection_idx, scroll_offset, quit, confirmed, mode,
                   filter_input, filter_cursor_pos, list_viewport_height, result>>

\* ---------------------------------------------- handle_filtering_mode_input
FilterKey == pc = "event" /\ mode = Filtering

\* String::insert(pos, c) at a char boundary
StringInsert(str, pos, c) ==
    LET k == CharsBefore(str, pos)
    IN  SubSeq(str, 1, k) \o <<c>> \o SubSeq(str, k + 1, Len(str))

\* String::remove(pos) of the character starting at the char boundary pos
StringRemove(str, pos) ==
    LET k == CharsBefore(str, pos)
    IN  SubSeq(str, 1, k) \o SubSeq(str, k + 2, Len(str))

\* the event the Backspace arm applies its edit to: String::remove panics when
\* pos is not below the length or not on a char boundary
RemovePanics(str, pos) == pos >= ByteLen(str) \/ ~is_char_boundary(str, pos)

\* String::insert panics when pos is not on a char boundary (or beyond the end)
InsertPanics(str, pos) == ~is_char_boundary(str, pos)

\* mutant: Enter revalidates the selection but stays in Filtering mode
FilterCommitStaysFiltering ==
    /\ FilterKey
    /\ mode' = Filtering
    /\ LET r == ensure_selection_is_valid_after_filter(items, filter_input,
                    list_viewport_height, current_selection_idx, scroll_offset)
       IN  /\ current_selection_idx' = r.cur
           /\ scroll_offset' = r.scroll
    /\ pc' = "draw"
    /\ last_event' = "commit"
    /\ before' = NoSnapshot
    /\ UNCHANGED <<paths, display_labels, terminal>>
    /\ UNCHANGED <<items, quit, confirmed, filter_input, filter_cursor_pos,
                   list_viewport_height, result>>

\* KeyCode::Enter
FilterCommit ==
    /\ FilterKey
    /\ mode' = Normal
    /\ LET r == ensure_selection_is_valid_after_filter(items, filter_input,
                    list_viewport_height, current_selection_idx, scroll_offset)
       IN  /\ current_selection_idx' = r.cur
           /\ scroll_offset' = r.scroll
    /\ pc' = "draw"
    /\ last_event' = "commit"
    /\ before' = NoSnapshot
    /\ UNCHANGED <<paths, display_labels, terminal>>
    /\ UNCHANGED <<items, quit, confirmed, filter_input, filter_cursor_pos,
                   list_viewport_height, result>>

\* mutant: Esc in Filtering mode quits, as it does in Normal mode
FilterCancelQuits ==
    /\ FilterKey
    /\ quit' = TRUE
    /\ pc' = "draw"
    /\ last_event' = "cancel"
    /\ before' = Snapshot
    /\ UNCHANGED <<paths, display_labels, terminal>>
    /\ UNCHANGED <<items, current_selection_idx, scroll_offset, confirmed, mode,
                   filter_input, filter_cursor_pos, list_viewport_height, result>>

\* mutant: Esc leaves Filtering mode without clearing the filter text
FilterCancelKeepsText ==
    /\ FilterKey
    /\ mode' = Normal
    /\ LET r == ensure_selection_is_valid_after_filter(items, filter_input,
                    list_viewport_height, current_selection_idx, scroll_offset)
       IN  /\ current_selection_idx' = r.cur
           /\ scroll_offset' = r.scroll
    /\ pc' = "draw"
    /\ last_event' = "cancel"
    /\ before' = Snapshot
    /\ UNCHANGED <<paths, display_labels, terminal>>
    /\ UNCHANGED <<items, quit, confirmed, filter_input, filter_cursor_pos,
                   list_viewport_height, result>>

\* KeyCode::Esc
FilterCancel ==
    /\ FilterKey
    /\ mode' = Normal
    /\ filter_input' = <<>>
    /\ filter_cursor_pos' = 0
    /\ LET r == ensure_selection_is_valid_after_filter(items, <<>>,
                    list_viewport_height, current_selection_idx, scroll_offset)
       IN  /\ current_selection_idx' = r.cur
           /\ scroll_offset' = r.scroll
    /\ pc' = "draw"
    /\ last_event' = "cancel"
    /\ before' = Snapshot
    /\ UNCHANGED <<paths, display_labels, terminal>>
    /\ UNCHANGED <<items, quit, confirmed, list_viewport_height, result>>

\* mutant: the character is inserted without revalidating the selection
FilterInsertWithoutRevalidation(c) ==
    /\ FilterKey
    /\ Len(filter_input) < MaxFilterLen
    /\ ~InsertPanics(filter_input, filter_cursor_pos)
    /\ filter_input' = StringInsert(filter_input, filter_cursor_pos, c)
    /\ filter_cursor_pos' = filter_cursor_pos + 1
    /\ pc' = "draw"
    /\ last_event' = "insert"
    /\ before' = NoSnapshot
    /\ UNCHANGED <<paths, display_labels, terminal>>
    /\ UNCHANGED <<items, current_selection_idx, scroll_offset, quit, confirmed, mode,
                   list_viewport_height, result>>

\* KeyCode::Char(c)
FilterInsert(c) ==
    /\ FilterKey
    /\ Len(filter_input) < MaxFilterLen
    /\ ~InsertPanics(filter_input, filter_cursor_pos)
    /\ LET text == StringInsert(filter_input, filter_cursor_pos, c)
           r == ensure_selection_is_valid_after_filter(items, text,
                    list_viewport_height, current_selection_idx, scroll_offset)
       IN  /\ filter_input' = text
           /\ filter_cursor_pos' = filter_cursor_pos + 1
           /\ current_selection_idx' = r.cur
           /\ scroll_offset' = r.scroll
    /\ pc' = "draw"
    /\ last_event' = "insert"
    /\ before' = NoSnapshot
    /\ UNCHANGED <<paths, display_labels, terminal>>
    /\ UNCHANGED <<items, quit, confirmed, mode, list_viewport_height, result>>

\* KeyCode::Backspace
FilterBackspace ==
    /\ FilterKey
    /\ IF filter_cursor_pos > 0 /\ filter_input # <<>>
       THEN /\ ~RemovePanics(filter_input, filter_cursor_pos - 1)
            /\ LET text == StringRemove(filter_input, filter_cursor_pos - 1)
                   r == ensure_selection_is_valid_after_filter(items, text,
                            list_viewport_height, current_selection_idx, scroll_offset)
               IN  /\ filter_input' = text
                   /\ filter_cursor_pos' = filter_cursor_pos - 1
                   /\ current_selection_idx' = r.cur
                   /\ scroll_offset' = r.scroll
       ELSE UNCHANGED <<filter_input, filter_cursor_pos, current_selection_idx, scroll_offset>>
    /\ pc' = "draw"
    /\ last_event' = "backspace"
    /\ before' = Snapshot
    /\ UNCHANGED <<paths, display_labels, terminal>>
    /\ UNCHANGED <<items, quit, confirmed, mode, list_viewport_height, result>>

\* KeyCode::Char(c) or KeyCode::Backspace with the cursor off a char boundary:
\* the String method panics and the process unwinds out of the loop
FilterEditPanics ==
    /\ FilterKey
    /\ \/ /\ Len(filter_input) < MaxFilterLen
          /\ InsertPanics(filter_input, filter_cursor_pos)
       \/ /\ filter_cursor_pos > 0 /\ filter_input # <<>>
          /\ RemovePanics(filter_input, filter_cursor_pos - 1)
    /\ pc' = "panicked"
    /\ last_event' = "panic"
    /\ before' = NoSnapshot
    /\ UNCHANGED <<paths, display_labels, terminal>>
    /\ UNCHANGED <<items, current_selection_idx, scroll_offset, quit, confirmed, mode,
                   filter_input, filter_cursor_pos, list_viewport_height, result>>

\* KeyCode::Left
FilterLeft ==
    /\ FilterKey
    /\ filter_cursor_pos' = IF filter_cursor_pos > 0 THEN filter_cursor_pos - 1
                            ELSE filter_cursor_pos
    /\ pc' = "draw"
    /\ last_event' = "left"
    /\ before' = NoSnapshot
    /\ UNCHANGED <<paths, display_labels, terminal>>
    /\ UNCHANGED <<items, current_selection_idx, scroll_offset, quit, confirmed, mode,
                   filter_input, list_viewport_height, result>>

\* KeyCode::Right
FilterRight ==
    /\ FilterKey
    /\ filter_cursor_pos' = IF filter_cursor_pos < ByteLen(filter_input)
                            THEN filter_cursor_pos + 1 ELSE filter_cursor_pos
    /\ pc' = "draw"
    /\ last_event' = "right"
    /\ before' = NoSnapshot
    /\ UNCHANGED <<paths, display_labels, terminal>>
    /\ UNCHANGED <<items, current_selection_idx, scroll_offset, quit, confirmed, mode,
                   filter_input, list_viewport_height, result>>

\* ------------------------------------------------------------ specification
Files(its) == {i \in Indices(its) : ~its[i + 1].is_dir}

Next ==
    \/ \E matched \in SUBSET Files(items) : Preselect(matched)
    \/ StartTui
    \/ \E step \in InitSteps : InitTerminalFails(step)
    \/ \E h \in 0..MaxViewportHeight : Draw(h)
    \/ DrawFails
    \/ EventFails
    \/ \E step \in RestoreSteps : RestoreTerminalFails(step)
    \/ ExitLoop
    \/ NoEvent
    \/ EnterFilterMode
    \/ QuitKey
    \/ ConfirmKey
    \/ SelectNext
    \/ SelectPrevious
    \/ ToggleSelection
    \/ ToggleExpansion
    \/ ExpandAll
    \/ CollapseAll
    \/ SelectAllVisible
    \/ DeselectAllVisible
    \/ FilterCommit
    \/ FilterCancel
    \/ \E c \in FilterChars : FilterInsert(c)
    \/ FilterBackspace
    \/ FilterEditPanics
    \/ FilterLeft
    \/ FilterRight

Spec == Init /\ [][Next]_vars

\* ------------------------------------- specification of the label builder
\* build_tree_labels and prepare_selectable_items applied to every list of
\* LabelInputs; no session is started
NotBuilt == <<>>

LabelInit ==
    /\ paths \in LabelInputs
    /\ display_labels = NotBuilt
    /\ items = <<>>
    /\ terminal = Cooked
    /\ current_selection_idx = 0
    /\ scroll_offset = 0
    /\ quit = FALSE
    /\ confirmed = FALSE
    /\ mode = Normal
    /\ filter_input = <<>>
    /\ filter_cursor_pos = 0
    /\ list_viewport_height = 0
    /\ pc = "labels"
    /\ result = Pending
    /\ last_event = "new"
    /\ before = NoSnapshot

SessionUntouched ==
    UNCHANGED <<current_selection_idx, scroll_offset, quit, confirmed, mode, filter_input,
                filter_cursor_pos, list_viewport_height, result, before, terminal, paths>>

\* tree_builder::build_tree_labels(&selectable_paths_for_tui, scan_root) returns
BuildTreeLabels ==
    /\ pc = "labels"
    /\ ~BuildTreeLabelsPanics(paths, RootPath)
    /\ display_labels' = build_tree_labels(paths, RootPath)
    /\ pc' = "labelled"
    /\ last_event' = "build_tree_labels"
    /\ UNCHANGED items
    /\ SessionUntouched

\* .. or panics on the slice of the ancestor stack
BuildTreeLabelsPanic ==
    /\ pc = "labels"
    /\ BuildTreeLabelsPanics(paths, RootPath)
    /\ pc' = "panicked"
    /\ last_event' = "panic"
    /\ UNCHANGED <<items, display_labels>>
    /\ SessionUntouched

\* tui::prepare_selectable_items(&selectable_paths_for_tui, &display_labels, scan_root)
PrepareItems ==
    /\ pc = "labelled"
    /\ items' = prepare_selectable_items(paths, display_labels, RootPath)
    /\ pc' = "prepared"
    /\ last_event' = "prepare_selectable_items"
    /\ UNCHANGED display_labels
    /\ SessionUntouched

LabelNext ==
    \/ BuildTreeLabels
    \/ BuildTreeLabelsPanic
    \/ PrepareItems

LabelSpec == LabelInit /\ [][LabelNext]_vars

\* ---------------------------------------------------- vocabulary of the claims
Dirs(its) == {i \in Indices(its) : its[i + 1].is_dir}

StateOf(its, i) == its[i + 1].state

ChildSet(its, d) == {its[d + 1].children_indices[k] : k \in 1..Len(its[d + 1].children_indices)}

\* the nodes on the parent chain of i
RECURSIVE Ancestors(_, _)
Ancestors(its, i) ==
    IF its[i + 1].parent_index = None THEN {}
    ELSE {its[i + 1].parent_index} \cup Ancestors(its, its[i + 1].parent_index)

\* n and the nodes reachable from it through directory-children edges
RECURSIVE ReachFrom(_, _, _)
ReachFrom(its, seen, rounds) ==
    IF rounds = 0 THEN seen
    ELSE ReachFrom(its,
                   seen \cup UNION {ChildSet(its, d) : d \in {x \in seen : its[x + 1].is_dir}},
                   rounds - 1)

Subtree(its, n) == ReachFrom(its, {n}, Len(its))

\* the children rule of the selection model
RuleState(its, d) ==
    IF ChildSet(its, d) # {} /\ \A c \in ChildSet(its, d) : StateOf(its, c) = FullySelected
    THEN FullySelected
    ELSE IF \A c \in ChildSet(its, d) : StateOf(its, c) = NotSelected
    THEN NotSelected
    ELSE PartiallySelected

VisibleSet(its, filter) ==
    LET v == get_visible_item_indices(its, filter) IN {v[k] : k \in 1..Len(v)}

\* ------------------------------------------------------------------ claims
\* C1: after any sequence of public operations every directory's state equals
\* the children rule applied to its children's current states; in particular
\* no directory is FullySelected with zero children.
C1_DirectoryFollowsRule ==
    \A d \in Dirs(items) : StateOf(items, d) = RuleState(items, d)

\* C2: a file is NotSelected or FullySelected, never PartiallySelected:
\* apply_state_and_propagate_down_vec on a file with PartiallySelected stores
\* FullySelected, and update_all_parent_states_from_child_vec writes no file.
C2_FileStateIsBinary ==
    /\ \A f \in Files(items) : StateOf(items, f) \in {NotSelected, FullySelected}
    /\ \A f \in Files(items) :
           StateOf(apply_state_and_propagate_down_vec(items, f, PartiallySelected), f)
               = FullySelected
    /\ \A n \in Indices(items) : \A f \in Files(items) :
           StateOf(update_all_parent_states_from_child_vec(items, n), f) = StateOf(items, f)

\* C2 witness: a toggle left a file FullySelected under a PartiallySelected directory
C2_Witness ==
    /\ last_event = "toggle"
    /\ \E f \in Files(items) :
           /\ StateOf(items, f) = FullySelected
           /\ before.states[f + 1] = NotSelected
           /\ \E d \in Ancestors(items, f) : StateOf(items, d) = PartiallySelected

\* C3: for desired in {FullySelected, NotSelected}, after
\* apply_state_and_propagate_down_vec(n, desired) the node n and every node
\* reachable from it through directory-children edges has state desired.
C3_SubtreeTakesDesiredState ==
    \A n \in Indices(items) : \A desired \in {FullySelected, NotSelected} :
        \A m \in Subtree(items, n) :
            StateOf(apply_state_and_propagate_down_vec(items, n, desired), m) = desired

\* C3 witness: a toggle cleared a FullySelected directory with nodes two levels below it
C3_Witness ==
    /\ last_event = "toggle"
    /\ items[current_selection_idx + 1].is_dir
    /\ before.states[current_selection_idx + 1] = FullySelected
    /\ \E m \in Subtree(items, current_selection_idx) :
           /\ Cardinality(Ancestors(items, m) \cap Subtree(items, current_selection_idx)) >= 2
           /\ before.states[m + 1] = FullySelected
    /\ \A m \in Subtree(items, current_selection_idx) : StateOf(items, m) = NotSelected

\* the events that change what is visible or navigated, not what is selected
VisibilityEvents ==
    {"next", "previous", "toggle_expansion", "expand_all", "collapse_all", "enter_filter",
     "insert", "backspace", "left", "right", "commit", "cancel"}

\* C4: toggle-expansion, expand-all, collapse-all, move-next/previous, entering
\* Filtering mode and every Filtering-mode action leave the selection state of
\* every node unchanged.
C4_VisibilityKeepsSelection ==
    [][last_event' \in VisibilityEvents =>
          \A i \in Indices(items) : StateOf(items', i) = StateOf(items, i)]_vars

\* C4 witness: a directory was collapsed over a FullySelected file, which is no
\* longer in the visible list
C4_Witness ==
    /\ last_event = "toggle_expansion"
    /\ \E f \in Files(items) :
           /\ StateOf(items, f) = FullySelected
           /\ ~items[items[f + 1].parent_index + 1].is_expanded
           /\ f \notin VisibleSet(items, filter_input)

\* C5: select_all_visible_items sets FullySelected exactly the files of the
\* visible list at the moment it is invoked, every other file keeps its state,
\* and each ancestor directory of a selected file ends with the children rule.
C5_SelectAllVisible ==
    [][last_event' = "select_all" =>
          LET vis == VisibleSet(items, filter_input)
          IN  /\ \A f \in Files(items) :
                     IF f \in vis
                     THEN StateOf(items', f) = FullySelected
                     ELSE StateOf(items', f) = StateOf(items, f)
              /\ \A f \in Files(items) \cap vis : \A d \in Ancestors(items, f) :
                     StateOf(items', d) = RuleState(items', d)]_vars

\* C5 witness: select-all under a filter that shows one of two files: the shown
\* file became FullySelected, the hidden one is NotSelected, the directories
\* above both are PartiallySelected
C5_Witness ==
    /\ last_event = "select_all"
    /\ filter_input # <<>>
    /\ \E f, g \in Files(items) :
           /\ f \in VisibleSet(items, filter_input)
           /\ g \notin VisibleSet(items, filter_input)
           /\ before.states[f + 1] = NotSelected
           /\ StateOf(items, f) = FullySelected
           /\ StateOf(items, g) = NotSelected
           /\ \A d \in Ancestors(items, f) \cap Ancestors(items, g) :
                  StateOf(items, d) = PartiallySelected

\* C6: deselect_all_visible_items leaves every node of the visible list, file or
\* directory, NotSelected; select_all_visible_items never applies a state to a
\* directory: the files below a visible directory that are not themselves in
\* the visible list keep their state.
C6_DeselectAllVisible ==
    [][/\ last_event' = "deselect_all" =>
              \A i \in VisibleSet(items, filter_input) : StateOf(items', i) = NotSelected
       /\ last_event' = "select_all" =>
              \A d \in VisibleSet(items, filter_input) \cap Dirs(items) :
                  \A f \in (Subtree(items, d) \cap Files(items)) \ VisibleSet(items, filter_input) :
                      StateOf(items', f) = StateOf(items, f)]_vars

\* C6 witness: deselect-all cleared a visible directory that was FullySelected
\* and collapsed, so that its files were not in the visible list
C6_Witness ==
    /\ last_event = "deselect_all"
    /\ \E d \in VisibleSet(items, filter_input) \cap Dirs(items) :
           /\ ~items[d + 1].is_expanded
           /\ before.states[d + 1] = FullySelected
           /\ StateOf(items, d) = NotSelected

\* C7: toggle maps NotSelected or PartiallySelected to desired FullySelected and
\* FullySelected to desired NotSelected, applies desired to the whole subtree
\* of the current node and recomputes every ancestor.
C7_Toggle ==
    [][last_event' = "toggle" =>
          LET n == current_selection_idx
              desired == IF StateOf(items, n) = FullySelected THEN NotSelected
                         ELSE FullySelected
          IN  /\ \A m \in Subtree(items, n) : StateOf(items', m) = desired
              /\ \A d \in Ancestors(items, n) : StateOf(items', d) = RuleState(items', d)]_vars

\* C7 witness: a PartiallySelected directory was toggled and is FullySelected
\* with all its descendants
C7_Witness ==
    /\ last_event = "toggle"
    /\ items[current_selection_idx + 1].is_dir
    /\ before.states[current_selection_idx + 1] = PartiallySelected
    /\ \A m \in Subtree(items, current_selection_idx) : StateOf(items, m) = FullySelected
    /\ Ancestors(items, current_selection_idx) # {}

\* hierarchically visible: every node on the parent chain is expanded
HierVisible(its, i) == \A a \in Ancestors(its, i) : its[a + 1].is_expanded

\* the label of i contains the filter, compared case-insensitively
LabelMatches(its, filter, i) ==
    LET label == its[i + 1].display_text
    IN  \E k \in 0..(Len(label) - Len(filter)) :
            \A j \in 1..Len(filter) : ToLowerChar(label[k + j]) = ToLowerChar(filter[j])

Descendants(its, i) == {m \in Indices(its) : i \in Ancestors(its, m)}

\* filter-visible: no filter, or the own label or the label of a descendant matches
FilterVisible(its, filter, i) ==
    \/ filter = <<>>
    \/ LabelMatches(its, filter, i)
    \/ \E m \in Descendants(its, i) : LabelMatches(its, filter, m)

\* the members of S in increasing order
RECURSIVE Increasing(_)
Increasing(S) ==
    IF S = {} THEN <<>>
    ELSE LET m == CHOOSE x \in S : \A y \in S : x <= y IN <<m>> \o Increasing(S \ {m})

\* the hierarchical-only visible list
HierList(its) == Increasing({i \in Indices(its) : HierVisible(its, i)})

\* C8: the visible list holds exactly the nodes that are hierarchically visible
\* and filter-visible, in strictly increasing index order without duplicates.
C8_VisibleListIsBothVisibilities ==
    LET v == get_visible_item_indices(items, filter_input)
    IN  /\ \A i \in Indices(items) :
               SeqContains(v, i) <=>
                   (HierVisible(items, i) /\ FilterVisible(items, filter_input, i))
        /\ \A k, l \in 1..Len(v) : k < l => v[k] < v[l]

\* C8 witness: under a filter and a collapsed directory the list has several
\* nodes, leaves out a hierarchically visible node the filter rejects and a
\* matching node that a collapsed ancestor hides
C8_Witness ==
    /\ filter_input # <<>>
    /\ Len(get_visible_item_indices(items, filter_input)) >= 2
    /\ \E i \in Indices(items) :
           HierVisible(items, i) /\ ~FilterVisible(items, filter_input, i)
    /\ \E i \in Indices(items) :
           ~HierVisible(items, i) /\ LabelMatches(items, filter_input, i)

\* C9: when the filter matches the label of one deep file only, every ancestor
\* of that file is filter-visible, and with all directories expanded the
\* visible list is exactly that file and its ancestors.
C9_AncestorsOfDeepMatch ==
    \A f \in Files(items) :
        (/\ filter_input # <<>>
         /\ {i \in Indices(items) : LabelMatches(items, filter_input, i)} = {f}
         /\ Cardinality(Ancestors(items, f)) >= 2)
        => /\ \A a \in Ancestors(items, f) :
                  item_matches_filter_or_has_matching_descendant(
                      items, a, ToLowercase(filter_input))
           /\ (\A d \in Dirs(items) : items[d + 1].is_expanded)
                  => VisibleSet(items, filter_input) = {f} \cup Ancestors(items, f)

\* C9 witness: the filter matches one file three levels down, all directories
\* are expanded and another file is left out of the list
C9_Witness ==
    /\ filter_input # <<>>
    /\ \A d \in Dirs(items) : items[d + 1].is_expanded
    /\ \E f \in Files(items) :
           /\ {i \in Indices(items) : LabelMatches(items, filter_input, i)} = {f}
           /\ Cardinality(Ancestors(items, f)) >= 3
           /\ Len(get_visible_item_indices(items, filter_input)) = 4
    /\ \E g \in Files(items) : g \notin VisibleSet(items, filter_input)

FilterModeEvents == {"enter_filter", "insert", "backspace", "left", "right", "commit", "cancel"}

\* C10: no Filtering-mode action changes the hierarchical-only visible list, and
\* after cancel, or an edit that leaves the filter text empty, the visible list
\* is exactly that list.
C10_FilterRoundTrip ==
    [][last_event' \in FilterModeEvents =>
          /\ HierList(items') = HierList(items)
          /\ (last_event' = "cancel" \/ filter_input' = <<>>)
                 => get_visible_item_indices(items', filter_input') = HierList(items)]_vars

\* C10 witness: cancel removed a filter under which the list was a different one
C10_Witness ==
    /\ last_event = "cancel"
    /\ before.filter # <<>>
    /\ \E d \in Dirs(items) : ~items[d + 1].is_expanded
    /\ Len(get_visible_item_indices(items, before.filter)) >= 1
    /\ get_visible_item_indices(items, before.filter) # get_visible_item_indices(items, filter_input)
    /\ get_visible_item_indices(items, filter_input) = HierList(items)

\* the input events the viewport claims name
ViewportEvents ==
    {"next", "previous", "toggle_expansion", "expand_all", "collapse_all",
     "insert", "backspace", "commit", "cancel"}

\* C11: in every state reached after an input event (move-next/previous,
\* toggle-expansion, expand-all, collapse-all, a filter edit, commit, cancel) has
\* been applied to completion, the position p of the current selection within
\* the visible list satisfies scroll_offset <= p < scroll_offset + viewport
\* height.  Read in the claim's favour: only where the latest draw left a
\* viewport of at least one row and the visible list is not empty.
C11_ViewportAfterEvent ==
    LET v == get_visible_item_indices(items, filter_input)
        p == Position(v, current_selection_idx)
    IN  (/\ pc = "draw"
         /\ last_event \in ViewportEvents
         /\ list_viewport_height >= 1
         /\ v # <<>>)
            => /\ p # None
               /\ scroll_offset <= p
               /\ p < scroll_offset + list_viewport_height

\* C12: after every mutating event scroll_offset lies in
\* [0, max(0, visibleCount - viewportHeight)], with visibleCount recomputed
\* after the event and the viewport height the one of the latest draw; this
\* also holds when the visible list shrinks (a collapse, a stricter filter, a
\* filter matching nothing).  Stated for a viewport of at least one row.
C12_ScrollClampedAfterEvent ==
    LET n == Len(get_visible_item_indices(items, filter_input))
        hi == IF n > list_viewport_height THEN n - list_viewport_height ELSE 0
    IN  (/\ pc = "draw"
         /\ last_event \in ViewportEvents
         /\ list_viewport_height >= 1)
            => scroll_offset \in 0..hi

\* C13: move-next and move-previous move the selection by exactly one position
\* within the visible list and wrap around its ends (next from the last element
\* selects the first, previous from the first selects the last); they never
\* select a node outside the visible list, whatever the depth of the nodes, and
\* with an empty visible list they change nothing.
C13_MoveByOneAndWrap ==
    [][last_event' \in {"next", "previous"} =>
          LET v == get_visible_item_indices(items, filter_input)
              n == Len(v)
              p == Position(v, current_selection_idx)
              q == Position(v, current_selection_idx')
              d == IF last_event' = "next" THEN 1 ELSE -1
          IN  /\ items' = items
              /\ filter_input' = filter_input
              /\ scroll_offset' = scroll_offset
              /\ IF n = 0 THEN current_selection_idx' = current_selection_idx
                 ELSE /\ SeqContains(v, current_selection_idx')
                      /\ (p # None /\ p + d \in 0..(n - 1)) => q = p + d
                      /\ (p # None /\ p + d = n) => q = 0
                      /\ (p # None /\ p + d = -1) => q = n - 1]_vars

\* C13 witness: with a one-row viewport showing the first element, previous has
\* wrapped to the last element of a visible list of at least three nodes, which
\* lies at another depth than the first
C13_Witness ==
    LET v == get_visible_item_indices(items, filter_input)
    IN  /\ last_event = "previous"
        /\ list_viewport_height = 1
        /\ scroll_offset = 0
        /\ Len(v) >= 3
        /\ current_selection_idx = v[Len(v)]
        /\ Cardinality(Ancestors(items, v[Len(v)])) # Cardinality(Ancestors(items, v[1]))

\* C14: after collapse-all every directory that has a parent is collapsed and
\* every parent-free top-level directory (every forest root, an orphan directory
\* whose parent path is absent from the input included) is expanded.
C14_CollapseAllKeepsForestRoots ==
    (pc = "draw" /\ last_event = "collapse_all")
        => \A d \in Dirs(items) :
               items[d + 1].is_expanded <=> (items[d + 1].parent_index = None)

\* C15: in every reachable state with a non-empty arena and an empty filter the
\* visible list is non-empty.
C15_VisibleListNonEmpty ==
    (Len(items) > 0 /\ filter_input = <<>>)
        => get_visible_item_indices(items, filter_input) # <<>>

\* C15 witness: cancel has just removed a filter under which nothing was listed,
\* in an arena whose directories below the root are collapsed
C15_Witness ==
    /\ last_event = "cancel"
    /\ filter_input = <<>>
    /\ before.filter # <<>>
    /\ get_visible_item_indices(items, before.filter) = <<>>
    /\ \E d \in Dirs(items) : ~items[d + 1].is_expanded
    /\ Len(get_visible_item_indices(items, filter_input)) \in 1..(Len(items) - 1)

\* C16: the session hands the final node states back to its caller exactly when
\* the confirmed flag is set at loop exit, and the cancellation value when quit
\* was set without confirmation; once quit is set the loop applies no further
\* event, it only leaves.  (Stated for a loop exit whose restore_terminal
\* succeeds; an Err from it is returned instead of either value.)
C16_ConfirmedDecidesResult ==
    [][/\ quit => /\ last_event' \in {"exit", "restore_failed"}
                  /\ pc' \in {"done", "failed"}
       /\ last_event' = "exit" =>
              /\ quit
              /\ (result'.tag = "Some") <=> confirmed
              /\ confirmed => result'.items = items
              /\ ~confirmed => result' = Cancelled]_vars

\* C16 witness: a confirmed session has returned an arena in which some file is
\* FullySelected and another one is not
C16_Witness ==
    /\ pc = "done"
    /\ last_event = "exit"
    /\ confirmed
    /\ result.tag = "Some"
    /\ \E f, g \in Files(result.items) :
           /\ StateOf(result.items, f) = FullySelected
           /\ StateOf(result.items, g) = NotSelected

\* C17: the terminal state is restored on every exit path of the session, also
\* when drawing, event polling/reading, or a later initialisation step fails.
\* (An exit through a failing restore_terminal is left out.)
C17_TerminalRestoredOnExit ==
    ((pc = "done" \/ (pc = "failed" /\ last_event # "restore_failed")))
        => terminal = Cooked

\* ------------------------------------------ vocabulary of the label claims
\* the characters of the names in Universe, in increasing byte order
Ascii == <<".", "a", "b", "c", "d", "i", "l", "m", "o", "r", "s", "t", "x">>

Rank(c) == CHOOSE k \in 1..Len(Ascii) : Ascii[k] = c

\* lexicographic order of two names, byte by byte
NameLess(a, b) ==
    \E k \in 0..Len(a) :
        /\ k <= Len(b)
        /\ SubSeq(a, 1, k) = SubSeq(b, 1, k)
        /\ \/ k = Len(a) /\ k < Len(b)
           \/ k < Len(a) /\ k < Len(b) /\ Rank(a[k + 1]) < Rank(b[k + 1])

\* lexicographic order of two paths, component by component
PathLess(p, q) ==
    \E k \in 0..Len(p) :
        /\ k <= Len(q)
        /\ SubSeq(p, 1, k) = SubSeq(q, 1, k)
        /\ \/ k = Len(p) /\ k < Len(q)
           \/ k < Len(p) /\ k < Len(q) /\ NameLess(p[k + 1], q[k + 1])

IsSorted(ps) == \A k \in 1..(Len(ps) - 1) : PathLess(ps[k].path, ps[k + 1].path)

HasEntry(ps, p) == \E k \in 1..Len(ps) : ps[k].path = p

\* the entries other than the root whose immediate parent is not in the list
Orphans(ps) ==
    {k \in 1..Len(ps) : ps[k].path # RootPath /\ ~HasEntry(ps, PathParent(ps[k].path))}

\* the entry with path p is the last one in the list among those with its parent
LastAmongSiblings(ps, p) ==
    \A j, k \in 1..Len(ps) :
        (ps[k].path = p /\ PathParent(ps[j].path) = PathParent(p)) => j <= k

\* what the rendering rules give for entry k of a list with all parents present
ExpectedLabel(ps, k) ==
    LET p == ps[k].path
        d == Len(p) - 1
        name == p[Len(p)]
    IN  IF d = 0 THEN <<".", "/">>
        ELSE ConcatAll([j \in 1..(d - 1) |->
                           IF LastAmongSiblings(ps, SubSeq(p, 1, j + 1))
                           THEN <<" ", " ", " ">>
                           ELSE <<"U+2502", " ", " ">>])
             \o (IF LastAmongSiblings(ps, p)
                 THEN <<"U+2514", "U+2500", " ">>
                 ELSE <<"U+251C", "U+2500", " ">>)
             \o name
             \o (IF ps[k].is_dir THEN <<"/">> ELSE <<>>)

\* "./", "├─ src/", "│  ├─ a.txt", "│  └─ b.txt", "└─ docs/"
ExampleLabels ==
    << <<".", "/">>,
       <<"U+251C", "U+2500", " ", "s", "r", "c", "/">>,
       <<"U+2502", " ", " ", "U+251C", "U+2500", " ", "a", ".", "t", "x", "t">>,
       <<"U+2502", " ", " ", "U+2514", "U+2500", " ", "b", ".", "t", "x", "t">>,
       <<"U+2514", "U+2500", " ", "d", "o", "c", "s", "/">> >>

\* C18: for a sorted input whose entries all have their parents present,
\* build_tree_labels returns one label per entry in input order: "./" for the
\* root, and for an entry at depth d >= 1 d-1 continuation glyphs (blank below
\* an ancestor that was the last child of its parent, a bar otherwise), the
\* connector, the name and "/" for a directory; for the example tree it returns
\* exactly the five labels of the example.
C18_LabelsFollowTheTree ==
    (pc = "labelled")
        => /\ (IsSorted(paths) /\ Orphans(paths) = {})
                  => display_labels = [k \in 1..Len(paths) |-> ExpectedLabel(paths, k)]
           /\ paths = ExampleTree => display_labels = ExampleLabels

\* C18 witness: the labels of the complete sorted tree of eight entries, three
\* levels deep, have been built, with a bar and a blank among the continuation
\* glyphs
C18_Witness ==
    /\ pc = "labelled"
    /\ paths = Universe
    /\ IsSorted(paths)
    /\ Orphans(paths) = {}
    /\ Len(display_labels) = 8
    /\ SubSeq(display_labels[7], 1, 6) = <<"U+2502", " ", " ", " ", " ", " ">>
    /\ SubSeq(display_labels[2], 1, 3) = <<"U+251C", "U+2500", " ">>

\* the three characters in front of the name in the label of entry k
ConnectorOf(ps, labels, k) ==
    LET name == ps[k].path[Len(ps[k].path)]
        e == Len(labels[k]) - Len(name) - (IF ps[k].is_dir THEN 1 ELSE 0)
    IN  SubSeq(labels[k], e - 2, e)

\* the positions of the entries, other than the root, whose parent path is par
ChildrenOf(ps, par) ==
    {k \in 1..Len(ps) : ps[k].path # RootPath /\ PathParent(ps[k].path) = par}

\* C19: for every parent, exactly one of its children in the input carries the
\* last-child connector, namely the child with the greatest input index; all
\* its other children carry the intermediate connector.
C19_OneLastChildPerParent ==
    (pc = "labelled")
        => \A k \in 1..Len(paths) :
               LET kids == ChildrenOf(paths, PathParent(paths[k].path))
               IN  k \in kids =>
                       ConnectorOf(paths, display_labels, k) =
                           (IF \A j \in kids : j <= k
                            THEN <<"U+2514", "U+2500", " ">>
                            ELSE <<"U+251C", "U+2500", " ">>)

\* C19 witness: labels were built for a list in which one directory has three
\* children and the root has three: the first two carry the intermediate
\* connector, the third the last-child connector
C19_Witness ==
    /\ pc = "labelled"
    /\ paths = Universe
    /\ ChildrenOf(paths, paths[3].path) = {4, 5, 6}
    /\ ConnectorOf(paths, display_labels, 4) = <<"U+251C", "U+2500", " ">>
    /\ ConnectorOf(paths, display_labels, 5) = <<"U+251C", "U+2500", " ">>
    /\ ConnectorOf(paths, display_labels, 6) = <<"U+2514", "U+2500", " ">>
    /\ ConnectorOf(paths, display_labels, 2) = <<"U+251C", "U+2500", " ">>
    /\ ConnectorOf(paths, display_labels, 8) = <<"U+2514", "U+2500", " ">>

\* C20: for an input entry whose immediate parent path is absent from the input
\* (an orphan) build_tree_labels completes, still emits a label for the entry,
\* and renders it as attached directly under the root: a connector, the name
\* and "/" for a directory, with no continuation glyph in front.
C20_OrphanRendersUnderRoot ==
    (pc \in {"labelled", "panicked"} /\ Orphans(paths) # {})
        => /\ pc = "labelled"
           /\ Len(display_labels) = Len(paths)
           /\ \A k \in Orphans(paths) :
                  LET name == paths[k].path[Len(paths[k].path)]
                      tail == name \o (IF paths[k].is_dir THEN <<"/">> ELSE <<>>)
                  IN  display_labels[k] \in {<<"U+2514", "U+2500", " ">> \o tail,
                                             <<"U+251C", "U+2500", " ">> \o tail}

\* ----------------------------------------------- vocabulary: arena links
\* how often i occurs in the children list of p
Occurrences(its, p, i) ==
    Cardinality({k \in 1..Len(its[p + 1].children_indices) :
                    its[p + 1].children_indices[k] = i})

C22_ModeTransitions ==
    [][pc' # "failed" =>
          /\ mode \in {Normal, Filtering} /\ mode' \in {Normal, Filtering}
          /\ mode' # mode => last_event' \in {"enter_filter", "commit", "cancel"}
          /\ last_event' = "enter_filter" => mode = Normal /\ mode' = Filtering
          /\ last_event' = "commit" =>
                 /\ mode = Filtering /\ mode' = Normal
                 /\ filter_input' = filter_input
          /\ last_event' = "cancel" =>
                 /\ mode = Filtering /\ mode' = Normal
                 /\ filter_input' = <<>>
                 /\ filter_cursor_pos' = 0]_vars

\* C22 witness: commit has returned to Normal mode with the typed text kept
C22_Witness ==
    /\ last_event = "commit"
    /\ mode = Normal
    /\ filter_input # <<>>
    /\ filter_cursor_pos > 0

\* set-then-refresh for each index of idxs in turn
RECURSIVE OneByOne(_, _)
OneByOne(its, idxs) ==
    IF idxs = <<>> THEN its
    ELSE OneByOne(update_all_parent_states_from_child_vec(
                      apply_state_and_propagate_down_vec(its, Head(idxs), FullySelected),
                      Head(idxs)),
                  Tail(idxs))

\* C23: pre-seeding as the caller performs it (set every matched file
\* FullySelected, then refresh the ancestors of every matched file) gives, for
\* every set of matched files, the node states that set-then-refresh for each
\* match in turn gives, and leaves every directory in the state the children
\* rule gives it before the loop starts.
C23_PreseedBatchEqualsOneByOne ==
    [][last_event' = "preselect" =>
          LET matched == {f \in Files(items) : StateOf(items', f) = FullySelected}
          IN  /\ items' = OneByOne(items, Ascending(matched))
              /\ \A d \in Dirs(items') : StateOf(items', d) = RuleState(items', d)]_vars

\* C23 witness: two files under different directories were pre-selected, which
\* left a directory below a forest root FullySelected
C23_Witness ==
    /\ last_event = "preselect"
    /\ pc = "start"
    /\ Cardinality({f \in Files(items) : StateOf(items, f) = FullySelected}) = 2
    /\ \E f, g \in Files(items) :
           /\ StateOf(items, f) = FullySelected /\ StateOf(items, g) = FullySelected
           /\ items[f + 1].parent_index # items[g + 1].parent_index
    /\ \E d \in Dirs(items) : StateOf(items, d) = FullySelected /\ items[d + 1].parent_index # None

\* the arena with the state of node n replaced by st
WithState(its, n, st) == [its EXCEPT ![n + 1].state = st]

\* the walk of update_all_parent_states_from_child_vec from any node n of the
\* arena its, after the state of n was overwritten by any state
AncestorsRefreshed(its) ==
    \A n \in Indices(its) : \A st \in SelectionState :
        LET start == WithState(its, n, st)
            done == update_all_parent_states_from_child_vec(start, n)
            up == Ancestors(its, n)
        IN  \A a \in Indices(its) :
                IF a \in up /\ its[a + 1].is_dir /\ ChildSet(its, a) # {}
                THEN StateOf(done, a) = RuleState(done, a)
                ELSE done[a + 1] = start[a + 1]

\* C24: after update_all_parent_states_from_child_vec(n) returns, every
\* directory ancestor of n that has at least one child holds the state the
\* children rule gives for its children's states at return time, a directory
\* without children that the walk reaches keeps its state, and no other node
\* changes.  Checked on every arena the session reaches: the arena handed to
\* the pre-selection and every arena a later step produces.
C24_RefreshAncestors ==
    [][(last_event' = "preselect" \/ items' # items) => AncestorsRefreshed(items')]_vars

\* C24 witness: toggling a file three levels deep has changed the state of all
\* three of its ancestors, each computed from the level below
C24_Witness ==
    /\ last_event = "toggle"
    /\ ~items[current_selection_idx + 1].is_dir
    /\ Cardinality(Ancestors(items, current_selection_idx)) = 3
    /\ \A a \in Ancestors(items, current_selection_idx) :
           /\ StateOf(items, a) # before.states[a + 1]
           /\ StateOf(items, a) = RuleState(items, a)
    /\ \E a \in Ancestors(items, current_selection_idx) : StateOf(items, a) = PartiallySelected

\* PartiallySelected applied to any directory d of the arena its
PartialStaysOnDirectory(its) ==
    \A d \in Dirs(its) :
        apply_state_and_propagate_down_vec(its, d, PartiallySelected)
            = [its EXCEPT ![d + 1].state = PartiallySelected]

\* C25: apply_state_and_propagate_down_vec with PartiallySelected on a
\* directory d writes PartiallySelected into d alone: every child and every
\* deeper descendant (and every other node) keeps the state it had.  Checked
\* on every arena the session reaches: the arena handed to the pre-selection
\* and every arena a later step produces.
C25_PartialStaysOnDirectory ==
    [][(last_event' = "preselect" \/ items' # items) => PartialStaysOnDirectory(items')]_vars

\* C25 witness: a FullySelected directory with a child and a grandchild whose
\* descendants are all FullySelected; the call turns the directory
\* PartiallySelected and every descendant stays FullySelected
C25_Witness ==
    \E d \in Dirs(items) :
        LET done == apply_state_and_propagate_down_vec(items, d, PartiallySelected)
            below == Subtree(items, d) \ {d}
        IN  /\ StateOf(items, d) = FullySelected
            /\ \E c \in ChildSet(items, d) : ChildSet(items, c) # {}
            /\ \A x \in below : StateOf(items, x) = FullySelected
            /\ StateOf(done, d) = PartiallySelected
            /\ \A x \in below : StateOf(done, x) = FullySelected

\* the events of C26: expansion changes and filter edit, commit, cancel
RevalidatingEvents ==
    {"toggle_expansion", "expand_all", "collapse_all", "insert", "backspace", "commit", "cancel"}

\* the nearest ancestor of i that is in the set vis, None when there is none
RECURSIVE NearestAncestorIn(_, _, _)
NearestAncestorIn(its, vis, i) ==
    LET parent_idx == its[i + 1].parent_index
    IN  IF parent_idx = None THEN None
        ELSE IF parent_idx \in vis THEN parent_idx
        ELSE NearestAncestorIn(its, vis, parent_idx)

\* the selection the revalidation rule of C26 prescribes for a selection cur
\* that is not in the visible list v
Revalidated(its, v, cur) ==
    LET vis == {v[k] : k \in 1..Len(v)}
        up == NearestAncestorIn(its, vis, cur)
    IN  IF up # None THEN up
        ELSE IF v # <<>> THEN v[1]
        ELSE 0

\* C26: after an expansion change or a filter edit, commit or cancel that
\* leaves the previous selection outside the new visible list, the selection
\* is its nearest ancestor in the visible list; without such an ancestor the
\* first node of the visible list; with an empty visible list index 0.
C26_SelectionFallsBackToAncestor ==
    [][(/\ last_event' \in RevalidatingEvents
        /\ current_selection_idx \notin VisibleSet(items', filter_input'))
          => current_selection_idx'
                 = Revalidated(items', get_visible_item_indices(items', filter_input'),
                               current_selection_idx)]_vars

\* scroll clamped into [0, max(0, n - height)]
ClampScroll(scroll, n, height) ==
    IF n <= height THEN 0 ELSE Min(scroll, n - height)

\* C27: a draw whose selection is at position p of the visible list, with a
\* list area of at least one row: with c the old scroll_offset clamped into
\* its range, p below the window [c, c + height) gives the new scroll_offset
\* p - height + 1, p above it gives p, and with p inside the window and the old
\* scroll_offset already in its range the scroll_offset is unchanged.
C27_MinimalScrollShift ==
    [][last_event' = "draw" =>
          LET v == get_visible_item_indices(items, filter_input)
              p == Position(v, current_selection_idx)
              h == list_viewport_height'
              c == ClampScroll(scroll_offset, Len(v), h)
          IN  (h >= 1 /\ p # None) =>
                  /\ p >= c + h => scroll_offset' = p - h + 1
                  /\ p < c => scroll_offset' = p
                  /\ (c = scroll_offset /\ c <= p /\ p < c + h)
                         => scroll_offset' = scroll_offset]_vars

\* C27 witness (selection below the window): after a draw with two rows the
\* selection sits on the bottom row of a window that was scrolled down and is
\* not at the end of the list
C27_Witness ==
    LET v == get_visible_item_indices(items, filter_input)
        p == Position(v, current_selection_idx)
    IN  /\ last_event = "draw"
        /\ list_viewport_height = 2
        /\ p # None
        /\ scroll_offset > 0
        /\ scroll_offset = p - list_viewport_height + 1
        /\ scroll_offset < Len(v) - list_viewport_height

\* C28: right after an insert-char or delete-char of Filtering mode the
\* selection is a member of the visible list of the new filter text whenever
\* that list is not empty; cursor-left and cursor-right change neither the
\* filter text nor the selection nor scroll_offset.
C28_LiveFiltering ==
    [][/\ last_event' \in {"insert", "backspace"}
            => LET v == get_visible_item_indices(items', filter_input')
               IN  v # <<>> => SeqContains(v, current_selection_idx')
       /\ last_event' \in {"left", "right"}
            => UNCHANGED <<filter_input, current_selection_idx, scroll_offset>>]_vars

\* C28 witness: a character has just been inserted, the filter hides part of
\* the hierarchically visible list, and the selection is in what is left
C28_Witness ==
    LET v == get_visible_item_indices(items, filter_input)
    IN  /\ last_event = "insert"
        /\ mode = Filtering
        /\ v # <<>>
        /\ Len(v) < Len(HierList(items))
        /\ SeqContains(v, current_selection_idx)

\* C29: the loop draws once and then handles at most one event: the event
\* phase is entered by a draw and by nothing else, and one step of the event
\* phase leads back to the head of the loop (or out of the process).  A draw
\* changes neither the arena nor the filter text, and at the end of every draw
\* that left a list area of at least one row and a non-empty visible list,
\* whatever came before (a move, a resize, any event), the selection is in the
\* visible list and its position p satisfies
\* scroll_offset <= p < scroll_offset + list_viewport_height.
C29_DrawRestoresViewport ==
    [][/\ pc' = "event" <=> last_event' = "draw"
       /\ pc' = "event" => pc = "draw"
       /\ pc = "event" => pc' \in {"draw", "failed", "panicked"}
       /\ last_event' = "draw" => UNCHANGED <<items, filter_input>>
       /\ (last_event' = "draw" /\ list_viewport_height' >= 1)
             => LET v == get_visible_item_indices(items, filter_input)
                    p == Position(v, current_selection_idx')
                IN  v # <<>> => /\ p # None
                                /\ scroll_offset' <= p
                                /\ p < scroll_offset' + list_viewport_height']_vars

\* C29 witness: a draw with a one-row list area has ended in Filtering mode
\* with the window scrolled down onto the selection
C29_Witness ==
    LET v == get_visible_item_indices(items, filter_input)
    IN  /\ last_event = "draw"
        /\ mode = Filtering
        /\ list_viewport_height = 1
        /\ scroll_offset > 0
        /\ Position(v, current_selection_idx) = scroll_offset

\* the events handled by handle_events, in either mode
InputEvents ==
    {"next", "previous", "toggle", "toggle_expansion", "expand_all", "collapse_all",
     "select_all", "deselect_all", "enter_filter", "quit", "confirm",
     "insert", "backspace", "left", "right", "commit", "cancel"}

\* C30: after the initial revalidation and after every applied input event, in
\* either mode, a non-empty visible list contains the current selection.
C30_SelectionInVisibleList ==
    [][last_event' \in InputEvents \cup {"start"}
          => LET v == get_visible_item_indices(items', filter_input')
             IN  v # <<>> => SeqContains(v, current_selection_idx')]_vars

\* C30 witness: collapse-all has just run under a non-empty filter that still
\* lists something, and the selection is one of the listed nodes
C30_Witness ==
    LET v == get_visible_item_indices(items, filter_input)
    IN  /\ last_event = "collapse_all"
        /\ pc = "draw"
        /\ filter_input # <<>>
        /\ v # <<>>
        /\ Len(v) < Len(items)
        /\ SeqContains(v, current_selection_idx)

\* every node of the visible list that has a parent has it in the list, before it
ClosedUnderParents(its, filter) ==
    LET v == get_visible_item_indices(its, filter)
    IN  \A k \in 1..Len(v) :
            LET parent_idx == its[v[k] + 1].parent_index
            IN  parent_idx # None => \E j \in 1..(k - 1) : v[j] = parent_idx

\* C31: the visible list is closed under parents: for every expansion state
\* and filter text the session reaches, a node of the visible list that has a
\* parent has that parent in the visible list, at an earlier position.
\* Evaluated whenever a step produces an arena or a filter text.
C31_VisibleListClosedUnderParents ==
    [][(last_event' = "preselect" \/ items' # items \/ filter_input' # filter_input)
          => ClosedUnderParents(items', filter_input')]_vars

\* C31 witness: under a non-empty filter the visible list holds a node at depth
\* three (it, its parent and its grandparent all have parents) while another
\* hierarchically visible node is filtered out
C31_Witness ==
    LET v == get_visible_item_indices(items, filter_input)
    IN  /\ filter_input # <<>>
        /\ Len(v) < Len(HierList(items))
        /\ \E k \in 1..Len(v) :
              LET up == Ancestors(items, v[k])
              IN  /\ Cardinality(up) = 3
                  /\ \A a \in up : SeqContains(v, a)

\* C32: deselect_all_visible_items also clears nodes that are not displayed:
\* afterwards every descendant of a directory of the visible list is
\* NotSelected, in the visible list or not (below a collapsed directory,
\* filtered out), and when a parent-free node is in the visible list every
\* node below it is NotSelected.
C32_DeselectClearsHiddenDescendants ==
    [][last_event' = "deselect_all" =>
          LET vis == VisibleSet(items, filter_input)
          IN  /\ \A d \in vis \cap Dirs(items) :
                     \A m \in Subtree(items, d) : StateOf(items', m) = NotSelected
              /\ \A r \in vis :
                     items[r + 1].parent_index = None
                         => \A m \in Indices(items) :
                                (m = r \/ r \in Ancestors(items, m))
                                    => StateOf(items', m) = NotSelected]_vars

\* C32 witness: deselect-all ran under a non-empty filter; a file that was
\* FullySelected and is filtered out of the visible list, while its parent
\* directory is listed, is NotSelected now
C32_Witness ==
    /\ last_event = "deselect_all"
    /\ filter_input # <<>>
    /\ \E g \in Files(items) :
           /\ g \notin VisibleSet(items, filter_input)
           /\ items[g + 1].parent_index \in VisibleSet(items, filter_input)
           /\ before.states[g + 1] = FullySelected
           /\ StateOf(items, g) = NotSelected

\* run_interactive_mode: the paths of the items that are files and
\* FullySelected; the sorted, deduplicated Vec is modelled as the set of paths
files_to_yank_interactive(its) ==
    {its[k].path : k \in {j \in 1..Len(its) : ~its[j].is_dir /\ its[j].state = FullySelected}}

\* a FullySelected directory has only FullySelected descendants and a
\* NotSelected directory only NotSelected ones, at every depth
DirectoriesAgreeWithDescendants(its) ==
    \A d \in Dirs(its) :
        StateOf(its, d) \in {FullySelected, NotSelected}
            => \A m \in Subtree(its, d) : StateOf(its, m) = StateOf(its, d)

\* C33: in every arena the session reaches, a FullySelected directory has only
\* FullySelected descendants and a NotSelected directory only NotSelected
\* descendants, at every depth; and when the session hands back the confirmed
\* arena, the payload holds the path of every file below each FullySelected
\* directory and of no file below a NotSelected directory.
C33_DirectoryStateCoversSubtree ==
    [][/\ (last_event' = "preselect" \/ items' # items)
             => DirectoriesAgreeWithDescendants(items')
       /\ (result' # result /\ result'.tag = "Some")
             => LET its == result'.items
                    payload == files_to_yank_interactive(its)
                IN  \A d \in Dirs(its) : \A f \in Subtree(its, d) \cap Files(its) :
                        /\ StateOf(its, d) = FullySelected => its[f + 1].path \in payload
                        /\ StateOf(its, d) = NotSelected => its[f + 1].path \notin payload]_vars

\* C33 witness: the confirmed arena has a FullySelected directory with a
\* directory below it and at least two files in its subtree, all of them in
\* the payload
C33_Witness ==
    /\ result.tag = "Some"
    /\ LET its == result.items
           payload == files_to_yank_interactive(its)
       IN  /\ \E d \in Dirs(its) :
                  /\ StateOf(its, d) = FullySelected
                  /\ \E c \in ChildSet(its, d) \cap Dirs(its) : ChildSet(its, c) # {}
                  /\ \A f \in Subtree(its, d) \cap Files(its) : its[f + 1].path \in payload
                  /\ Cardinality(Subtree(its, d) \cap Files(its)) >= 2
           /\ Cardinality(payload) >= 2

\* C34: quit and confirmed are set from Normal mode only, by the quit and
\* confirm keys, and are never reset while the session lives: a key handled in
\* Filtering mode changes neither flag nor any node (state, expansion flag);
\* confirmed implies quit; quit and confirmed, once true, stay true.  A step
\* that ends the session with an error drops the application state and is not
\* constrained.
C34_FlagsOnlyFromNormalMode ==
    [][pc' # "failed" =>
          /\ (pc = "event" /\ mode = Filtering)
                 => /\ UNCHANGED <<quit, confirmed>>
                    /\ items' = items
          /\ quit' # quit => mode = Normal /\ last_event' \in {"quit", "confirm"}
          /\ confirmed' # confirmed => mode = Normal /\ last_event' = "confirm"
          /\ quit => quit'
          /\ confirmed => confirmed'
          /\ confirmed' => quit']_vars

\* C34 witness: a character has just been typed into the filter of an arena
\* that holds selected nodes; the session has neither quit nor confirmed
C34_Witness ==
    /\ last_event = "insert"
    /\ mode = Filtering
    /\ filter_input # <<>>
    /\ ~quit /\ ~confirmed
    /\ \E i \in Indices(items) : StateOf(items, i) = FullySelected
    /\ \E d \in Dirs(items) : ~items[d + 1].is_expanded

\* C35: after any sequence of Filtering-mode actions and re-entries into
\* Filtering mode the filter cursor is a valid edit position of the filter
\* text: 0 <= filter_cursor_pos <= length of the text, on a character
\* boundary, and no insert or delete has failed.
C35_CursorIsValidEditPosition ==
    /\ filter_cursor_pos \in 0..ByteLen(filter_input)
    /\ is_char_boundary(filter_input, filter_cursor_pos)
    /\ pc # "panicked"

\* C36: whenever toggle-selection changes the state of a node, the current
\* selection is in the visible list at that moment.
C36_ToggleOnlyDisplayedNode ==
    [][(last_event' = "toggle" /\ items' # items)
          => current_selection_idx \in VisibleSet(items, filter_input)]_vars

\* the fields of a node that construction fixes
Fixed(it) ==
    [path |-> it.path, is_dir |-> it.is_dir, display_text |-> it.display_text,
     parent_index |-> it.parent_index, children_indices |-> it.children_indices]

\* new differs from old in nothing but the states of nodes of the set where
OnlyStatesIn(old, new, where) ==
    /\ Len(new) = Len(old)
    /\ \A i \in Indices(old) :
           /\ [new[i + 1] EXCEPT !.state = old[i + 1].state] = old[i + 1]
           /\ i \notin where => new[i + 1].state = old[i + 1].state

\* the three operations on any node n of the arena its touch the states of
\* n, its descendants and its ancestors only
OperationsStayOnOwnBranch(its) ==
    \A n \in Indices(its) :
        LET down == Subtree(its, n)
            up == Ancestors(its, n)
        IN  /\ \A st \in SelectionState :
                   OnlyStatesIn(its, apply_state_and_propagate_down_vec(its, n, st), down)
            /\ OnlyStatesIn(its, update_all_parent_states_from_child_vec(its, n), up)
            /\ OnlyStatesIn(its, toggle_current_item_selection(its, n), down \cup up)

\* C37: toggle_current_item_selection, apply_state_and_propagate_down_vec and
\* update_all_parent_states_from_child_vec on a node n change the state of no
\* node other than n, its descendants and its ancestors, and nothing but
\* states; and no step of a living session changes the number of nodes or a
\* node's path, is_dir flag, label, parent link or children list.
C37_FrameOfSelectionOperations ==
    [][/\ (last_event' = "preselect" \/ items' # items) /\ pc' # "failed"
             => OperationsStayOnOwnBranch(items')
       /\ pc' # "failed"
             => /\ Len(items') = Len(items)
                /\ \A k \in 1..Len(items) : Fixed(items'[k]) = Fixed(items[k])
       /\ last_event' = "toggle"
             => OnlyStatesIn(items, items',
                             Subtree(items, current_selection_idx)
                                 \cup Ancestors(items, current_selection_idx))]_vars

\* C37 witness: a toggle has cleared a directory that has children and
\* ancestors, and a FullySelected node of a sibling subtree has kept its state
C37_Witness ==
    /\ last_event = "toggle"
    /\ LET n == current_selection_idx
           branch == Subtree(items, n) \cup Ancestors(items, n)
       IN  /\ items[n + 1].is_dir
           /\ ChildSet(items, n) # {}
           /\ Ancestors(items, n) # {}
           /\ before.states[n + 1] = FullySelected
           /\ StateOf(items, n) = NotSelected
           /\ \E s \in Indices(items) \ branch :
                  /\ before.states[s + 1] = FullySelected
                  /\ StateOf(items, s) = FullySelected

\* applying either bulk operation a second time, with the same expansion flags
\* and filter, changes nothing
BulkOperationsIdempotent(its, filter) ==
    LET selected == select_all_visible_items(its, filter)
        cleared == deselect_all_visible_items(its, filter)
    IN  /\ select_all_visible_items(selected, filter) = selected
        /\ deselect_all_visible_items(cleared, filter) = cleared

\* C38: select_all_visible_items and deselect_all_visible_items are
\* idempotent: with unchanged expansion flags and filter, applying either one
\* twice in a row leaves every node in the state one application gives.
\* Evaluated for every arena and filter text a step produces, and on every
\* select-all and deselect-all step of the session.
C38_BulkOperationsIdempotent ==
    [][/\ (last_event' = "preselect" \/ items' # items \/ filter_input' # filter_input)
             => BulkOperationsIdempotent(items', filter_input')
       /\ last_event' = "select_all"
             => select_all_visible_items(items', filter_input') = items'
       /\ last_event' = "deselect_all"
             => deselect_all_visible_items(items', filter_input') = items']_vars

\* C38 witness: select-all has run a second time under a filter that hides a
\* file: the states are those it found, with a selected and an unselected file
C38_Witness ==
    /\ last_event = "select_all"
    /\ filter_input # <<>>
    /\ before.states = [k \in 1..Len(items) |-> items[k].state]
    /\ \E f \in Files(items) : StateOf(items, f) = FullySelected
    /\ \E f \in Files(items) : StateOf(items, f) = NotSelected

\* two toggles of the same node n of the arena its
ToggledTwice(its, n) ==
    toggle_current_item_selection(toggle_current_item_selection(its, n), n)

\* the round trip of C39 for every node of the arena its
ToggleRoundTrip(its) ==
    \A n \in Indices(its) :
        IF StateOf(its, n) \in {NotSelected, FullySelected}
        THEN ToggledTwice(its, n) = its
        ELSE \A m \in Subtree(its, n) : StateOf(ToggledTwice(its, n), m) = NotSelected

\* C39: in every arena the session reaches, toggling the same node twice in a
\* row restores the state of every node when the node was NotSelected or
\* FullySelected before the first toggle; when it was PartiallySelected the
\* two toggles leave it and its whole subtree NotSelected.
C39_ToggleRoundTrip ==
    [][(last_event' = "preselect" \/ items' # items) => ToggleRoundTrip(items')]_vars

\* C39 witness: a directory with children and ancestors has just been toggled
\* from NotSelected, an ancestor changed with it, and the second toggle gives
\* back the states found before the first
C39_Witness ==
    /\ last_event = "toggle"
    /\ LET n == current_selection_idx
           again == toggle_current_item_selection(items, n)
       IN  /\ items[n + 1].is_dir
           /\ ChildSet(items, n) # {}
           /\ before.states[n + 1] = NotSelected
           /\ \E a \in Ancestors(items, n) : before.states[a + 1] # StateOf(items, a)
           /\ \E s \in Indices(items) : StateOf(items, s) = NotSelected
           /\ before.states = [k \in 1..Len(again) |-> again[k].state]

====
